---- MODULE Spec2Model ----
(***************************************************************************)
(* SentinelDQ drift engine: DriftSummary, the three drift detectors and    *)
(* DriftRunner, modelled from src/drift_engine.                            *)
(*                                                                         *)
(* Numbers that the code holds as floats are exact rationals here, a       *)
(* record [n |-> numerator, d |-> denominator] with d > 0; time is counted *)
(* in whole hours.  A DriftResult keeps the fields the detectors decide    *)
(* (type, entity, field, metric, score, severity, windows); its payload    *)
(* fields baseline_value, current_value, metadata and detected_at are not  *)
(* modelled.                                                               *)
(***************************************************************************)
EXTENDS Integers, Sequences, FiniteSets, TLC

VARIABLES
    pc,               \* position of DriftRunner: construction and run()
    config,           \* the loaded configuration (yaml.safe_load)
    reference_time,   \* run(reference_time)
    baseline_window,  \* run(): local baseline_window
    current_window,   \* run(): local current_window
    baseline_data,    \* run(): local baseline_data
    current_data,     \* run(): local current_data
    profiles,         \* run(): the six profiles built in step 3
    summary,          \* a DriftSummary (run()'s local, or a free-standing one)
    returned,         \* what run() returned to its caller
    raised,           \* the exception that left __init__ or run(), or "none"
    steps,            \* the steps run() has performed, in order
    fetch_attempts,   \* number of _fetch_data calls per window in this run
    store,            \* rows the run committed to drift_results
    persist_calls,    \* lists handed to DriftPostgresWriter.write_results
    writer,           \* what became of the run's DriftPostgresWriter
    runs,             \* number of run() calls made on the runner
    service,          \* drift_service: its position, clock and job
    validation_engine, \* a ValidationEngine: its rules, cache and last result
    call,             \* a pending call of a pure function, with its arguments
    ret               \* the result of that call

vars == <<pc, config, reference_time, baseline_window, current_window,
          baseline_data, current_data, profiles, summary, returned, raised,
          steps, fetch_attempts, store, persist_calls, writer, runs, service,
          validation_engine, call, ret>>

runner_vars == <<pc, config, reference_time, baseline_window, current_window,
                 baseline_data, current_data, profiles, returned, raised,
                 steps, fetch_attempts, store, persist_calls, writer, runs,
                 service, validation_engine>>

-----------------------------------------------------------------------------
(* Bounds of the model *)

MaxResults == 3

\* the largest cardinality of a field in an enumerated schema profile
MaxCard == 12

\* the largest windowing.baseline.days, windowing.current.hours and
\* |windowing.gap_hours| of an enumerated configuration
MaxDays == 2

MaxHours == 3

MaxGap == 2

\* the largest count of one entity value in an enumerated volume profile
MaxEntityCount == 3

-----------------------------------------------------------------------------
(* Exact rational arithmetic standing for the code's float arithmetic *)

Rat(a, b) == [n |-> a, d |-> b]

Zero == Rat(0, 1)

One == Rat(1, 1)

RLe(x, y) == x.n * y.d <= y.n * x.d

RLt(x, y) == x.n * y.d < y.n * x.d

REq(x, y) == x.n * y.d = y.n * x.d

RGe(x, y) == RLe(y, x)

RAbs(x) == IF x.n < 0 THEN Rat(-x.n, x.d) ELSE x

\* x - y; operands over one denominator keep it (the same number, smaller terms)
RSub(x, y) == IF x.d = y.d THEN Rat(x.n - y.n, x.d)
              ELSE Rat(x.n * y.d - y.n * x.d, x.d * y.d)

\* x / y for y # 0
RDiv(x, y) ==
    LET num == IF x.d = y.d THEN x.n ELSE x.n * y.d
        den == IF x.d = y.d THEN y.n ELSE x.d * y.n
    IN  IF den > 0 THEN Rat(num, den) ELSE Rat(-num, -den)

\* round(x, 4) for x >= 0: to the nearest ten-thousandth, ties to even
Round4(x) ==
    LET scaled == x.n * 10000
        q == scaled \div x.d
        twice == 2 * (scaled % x.d)
    IN  Rat(IF twice > x.d \/ (twice = x.d /\ q % 2 = 1) THEN q + 1 ELSE q, 10000)

\* the largest r in lo..hi with r * r <= x
RECURSIVE IsqrtBetween(_, _, _)
IsqrtBetween(x, lo, hi) ==
    IF lo >= hi THEN lo
    ELSE LET mid == (lo + hi + 1) \div 2
         IN  IF mid * mid <= x THEN IsqrtBetween(x, mid, hi)
             ELSE IsqrtBetween(x, lo, mid - 1)

\* min(1.0, x)
RMin1(x) == IF RLe(One, x) THEN One ELSE x

-----------------------------------------------------------------------------
(* drift_engine/models/drift_result.py *)

DriftType == {"schema", "distribution", "volume"}

Severity == {"INFO", "WARNING", "CRITICAL"}

TimeWindow(s, e) == [start |-> s, end |-> e]

duration_hours(w) == w.end - w.start

NoWindow == TimeWindow(0, 0)

DriftResult(type, entity, field, bw, cw, metric, score, sev) ==
    [drift_type |-> type, entity |-> entity, field_name |-> field,
     baseline_window |-> bw, current_window |-> cw,
     metric_name |-> metric, drift_score |-> score, severity |-> sev]

\* DriftSummary(run_timestamp, baseline_window, current_window,
\*              total_checks, total_drifts) with the dataclass defaults
DriftSummary(ts, bw, cw, checks, drifts) ==
    [run_timestamp |-> ts, baseline_window |-> bw, current_window |-> cw,
     total_checks |-> checks, total_drifts |-> drifts,
     critical_count |-> 0, warning_count |-> 0, info_count |-> 0,
     drifts_by_type |-> <<>>, results |-> <<>>]

\* dict.get(key, default)
DictGet(dict, key, default) ==
    IF key \in DOMAIN dict THEN dict[key] ELSE default

\* dict[key] = value
DictSet(dict, key, value) ==
    [k \in (DOMAIN dict) \cup {key} |-> IF k = key THEN value ELSE dict[k]]

\* a bug add_result could have: the final else branch does not count INFO
add_result_no_info(s, result) ==
    [s EXCEPT
        !.results = Append(@, result),
        !.total_drifts = @ + 1,
        !.critical_count = IF result.severity = "CRITICAL" THEN @ + 1 ELSE @,
        !.warning_count = IF result.severity = "WARNING" THEN @ + 1 ELSE @,
        !.drifts_by_type = DictSet(@, result.drift_type,
                                   DictGet(@, result.drift_type, 0) + 1)]

add_result(s, result) ==
    [s EXCEPT
        !.results = Append(@, result),
        !.total_drifts = @ + 1,
        !.critical_count = IF result.severity = "CRITICAL" THEN @ + 1 ELSE @,
        !.warning_count = IF result.severity = "WARNING" THEN @ + 1 ELSE @,
        !.info_count = IF result.severity \notin {"CRITICAL", "WARNING"}
                       THEN @ + 1 ELSE @,
        !.drifts_by_type = DictSet(@, result.drift_type,
                                   DictGet(@, result.drift_type, 0) + 1)]

\* for drift in drifts: summary.add_result(drift)
RECURSIVE add_results(_, _)
add_results(s, drifts) ==
    IF drifts = <<>> THEN s
    ELSE add_results(add_result(s, Head(drifts)), Tail(drifts))

-----------------------------------------------------------------------------
(* Records: JSON documents as the data store returns them *)

\* a scalar: type(value).__name__, str(value), and what float(value) gives
Leaf(type, repr, numeric, num) ==
    [kind |-> "leaf", type |-> type, repr |-> repr, numeric |-> numeric, num |-> num]

JNull == [kind |-> "null"]

JDict(items) == [kind |-> "dict", items |-> items]

JList(len) == [kind |-> "list", len |-> len]

StrLeaf(x) == Leaf("str", x, FALSE, 0)

IntLeaf(repr, num) == Leaf("int", repr, TRUE, num)

-----------------------------------------------------------------------------
(* drift_engine/profiles/schema_profile.py *)

\* f"<array[{len(v)}]>"
ArrayTag(len) ==
    "<array[" \o <<"0", "1", "2", "3", "4", "5", "6", "7", "8", "9">>[len + 1] \o "]>"

\* SchemaProfile._flatten_dict: dotted path -> scalar, null or array tag
RECURSIVE FlattenDict(_, _)
RECURSIVE FlattenItems(_, _, _)
FlattenDict(d, parent_key) == FlattenItems(d, parent_key, DOMAIN d.items)

FlattenItems(d, parent_key, keys) ==
    IF keys = {} THEN <<>>
    ELSE LET k == CHOOSE x \in keys : TRUE
             new_key == IF parent_key # "" THEN parent_key \o "." \o k ELSE k
             v == d.items[k]
             item == IF v.kind = "dict" THEN FlattenDict(v, new_key)
                     ELSE IF v.kind = "list" THEN (new_key :> StrLeaf(ArrayTag(v.len)))
                     ELSE (new_key :> v)
         IN  FlattenItems(d, parent_key, keys \ {k}) @@ item

\* the values a path takes over the records that hold it, in record order
RECURSIVE PathValues(_, _)
PathValues(flats, path) ==
    IF flats = <<>> THEN <<>>
    ELSE (IF path \in DOMAIN Head(flats) THEN <<Head(flats)[path]>> ELSE <<>>)
         \o PathValues(Tail(flats), path)

RECURSIVE NonNull(_)
NonNull(values) ==
    IF values = <<>> THEN <<>>
    ELSE (IF Head(values).kind = "null" THEN <<>> ELSE <<Head(values)>>)
         \o NonNull(Tail(values))

\* lines 77-79: str(value) joins the set only while it holds fewer than
\* max_cardinality_track values
RECURSIVE TrackUnique(_, _, _)
TrackUnique(unique_values, values, max_cardinality_track) ==
    IF values = <<>> THEN unique_values
    ELSE TrackUnique(IF Cardinality(unique_values) < max_cardinality_track
                     THEN unique_values \cup {Head(values).repr}
                     ELSE unique_values,
                     Tail(values), max_cardinality_track)

\* lines 84-85: max over the type histogram, the first-seen type winning ties
DominantType(values) ==
    IF values = <<>> THEN "null"
    ELSE LET Count(t) == Cardinality({i \in 1..Len(values) : values[i].type = t})
             best == CHOOSE i \in 1..Len(values) :
                        /\ \A j \in 1..Len(values) :
                              Count(values[j].type) <= Count(values[i].type)
                        /\ \A j \in 1..(i - 1) :
                              Count(values[j].type) < Count(values[i].type)
         IN  values[best].type

\* lines 82-104: the profile of one field
FieldProfile(values, row_count, max_cardinality_track) ==
    LET present == NonNull(values)
        null_count == Len(values) - Len(present)
        cardinality == Cardinality(TrackUnique({}, present, max_cardinality_track))
    IN  [type |-> DominantType(present),
         nullable |-> null_count > 0,
         null_ratio |-> Round4(Rat(null_count, row_count)),
         present_count |-> Len(values),
         presence_ratio |-> Round4(Rat(Len(values), row_count)),
         cardinality |-> cardinality,
         cardinality_exact |-> cardinality < max_cardinality_track]

\* SchemaProfile.from_records
SchemaFromRecords(records, max_cardinality_track) ==
    IF records = <<>> THEN [fields |-> <<>>, row_count |-> 0]
    ELSE LET flats == [i \in 1..Len(records) |-> FlattenDict(records[i], "")]
             paths == UNION {DOMAIN flats[i] : i \in 1..Len(records)}
         IN  [fields |-> [path \in paths |->
                             FieldProfile(PathValues(flats, path), Len(records),
                                          max_cardinality_track)],
              row_count |-> Len(records)]

-----------------------------------------------------------------------------
(* drift_engine/profiles/statistical_profile.py, volume_profile.py *)

\* a configured field path "a.b" is held as its parts <<"a", "b">>
\* (field_path.split('.')); this is the dotted name again
RECURSIVE JoinPath(_)
JoinPath(parts) ==
    IF Len(parts) = 1 THEN parts[1]
    ELSE parts[1] \o "." \o JoinPath(Tail(parts))

\* _extract_field (the same code in both profile classes): None as soon as a
\* part is missing, null, or looked up in something that is no dict
RECURSIVE ExtractField(_, _)
ExtractField(value, parts) ==
    IF parts = <<>> THEN value
    ELSE IF value.kind # "dict" THEN JNull
    ELSE IF Head(parts) \notin DOMAIN value.items THEN JNull
    ELSE IF value.items[Head(parts)].kind = "null" THEN JNull
    ELSE ExtractField(value.items[Head(parts)], Tail(parts))

\* [_extract_field(record, field) for record in records]
Extracted(records, parts) ==
    [i \in 1..Len(records) |-> ExtractField(records[i], parts)]

\* Counter(values)[value] over the str() of the values
CountOf(values, repr) == Cardinality({i \in 1..Len(values) : values[i].repr = repr})

Reprs(values) == {values[i].repr : i \in 1..Len(values)}

\* index of the first occurrence of a value: the Counter's insertion order
FirstSeen(values, repr) ==
    CHOOSE i \in 1..Len(values) :
        values[i].repr = repr /\ \A j \in 1..(i - 1) : values[j].repr # repr

\* lines 67-98: categorical[field], or nothing when every value is null or
\* the distinct values outnumber max_categories
CategoricalOf(records, parts, max_categories) ==
    LET values == NonNull(Extracted(records, parts))
    IN  IF values # <<>> /\ Cardinality(Reprs(values)) <= max_categories
        THEN (JoinPath(parts) :>
                [v \in Reprs(values) |-> Rat(CountOf(values, v), Len(values))])
        ELSE <<>>

\* lines 105-114: the values float() accepts
RECURSIVE Floats(_)
Floats(values) ==
    IF values = <<>> THEN <<>>
    ELSE (IF Head(values).kind = "leaf" /\ Head(values).numeric
          THEN <<Head(values).num>> ELSE <<>>)
         \o Floats(Tail(values))

RECURSIVE SumSeq(_)
SumSeq(xs) == IF xs = <<>> THEN 0 ELSE Head(xs) + SumSeq(Tail(xs))

\* lines 121-137: mean and population standard deviation, each rounded to 4
\* decimals (min, max and the percentiles, which no detector reads, are left
\* out); the square root is taken to the ten-thousandth
NumericalOf(records, parts) ==
    LET values == Floats(Extracted(records, parts))
        n == Len(values)
        total == SumSeq(values)
        squares == SumSeq([i \in 1..n |-> values[i] * values[i]])
        root == IsqrtBetween((n * squares - total * total) * 100000000, 0, 46340)
    IN  IF values # <<>>
        THEN (JoinPath(parts) :>
                [mean |-> Round4(Rat(total, n)), std |-> Round4(Rat(root, n * 10000))])
        ELSE <<>>

\* lines 78-80 and 116-118: the share of records without a usable value
NullRatioOf(records, parts, numerical) ==
    LET values == Extracted(records, parts)
        usable == IF numerical THEN Len(Floats(values)) ELSE Len(NonNull(values))
    IN  (JoinPath(parts) :> Rat(Len(records) - usable, Len(records)))

\* the merge of f over the fields of a configured list, later fields winning
RECURSIVE MergeOver(_, _)
MergeOver(f, fields) ==
    IF fields = <<>> THEN <<>>
    ELSE f[fields[Len(fields)]] @@ MergeOver(f, SubSeq(fields, 1, Len(fields) - 1))

SeqRange(xs) == {xs[i] : i \in 1..Len(xs)}

\* StatisticalProfile.from_records
StatisticalFromRecords(records, categorical_fields, numerical_fields, max_categories) ==
    IF records = <<>>
    THEN [categorical |-> <<>>, numerical |-> <<>>, null_ratios |-> <<>>, row_count |-> 0]
    ELSE [categorical |->
            MergeOver([f \in SeqRange(categorical_fields) |->
                          CategoricalOf(records, f, max_categories)],
                      categorical_fields),
          numerical |->
            MergeOver([f \in SeqRange(numerical_fields) |-> NumericalOf(records, f)],
                      numerical_fields),
          null_ratios |->
            MergeOver([f \in SeqRange(numerical_fields) |-> NullRatioOf(records, f, TRUE)],
                      numerical_fields)
            @@ MergeOver([f \in SeqRange(categorical_fields) |->
                             NullRatioOf(records, f, FALSE)],
                         categorical_fields),
          row_count |-> Len(records)]

\* dict(counter.most_common(top_n)): the top_n values by count, the one seen
\* first winning a tie
MostCommon(values, top_n) ==
    LET Before(u, v) ==
            \/ CountOf(values, u) > CountOf(values, v)
            \/ /\ CountOf(values, u) = CountOf(values, v)
               /\ FirstSeen(values, u) < FirstSeen(values, v)
        kept == {v \in Reprs(values) :
                    Cardinality({u \in Reprs(values) : Before(u, v)}) < top_n}
    IN  [v \in kept |-> CountOf(values, v)]

\* lines 59-71: per_entity[field], or nothing when every value is null
EntitiesOf(records, parts, top_n) ==
    LET values == NonNull(Extracted(records, parts))
    IN  IF values # <<>> THEN (JoinPath(parts) :> MostCommon(values, top_n))
        ELSE <<>>

\* VolumeProfile.from_records
VolumeFromRecords(records, entity_fields, top_n) ==
    IF records = <<>> THEN [total_count |-> 0, per_entity |-> <<>>]
    ELSE [total_count |-> Len(records),
          per_entity |->
            MergeOver([f \in SeqRange(entity_fields) |-> EntitiesOf(records, f, top_n)],
                      entity_fields)]

-----------------------------------------------------------------------------
(* drift_engine/detectors/schema_drift.py *)

\* "for x in <set>": the elements in the one order the process iterates them
RECURSIVE SetToSeq(_)
SetToSeq(S) ==
    IF S = {} THEN <<>>
    ELSE LET x == CHOOSE y \in S : TRUE IN <<x>> \o SetToSeq(S \ {x})

\* the concatenation of f(x) over a sequence xs ("for x in xs: results.append")
RECURSIVE FlatMap(_, _)
FlatMap(f, xs) ==
    IF xs = <<>> THEN <<>> ELSE f[Head(xs)] \o FlatMap(f, Tail(xs))

\* SchemaDriftDetector.__init__: thresholds with their defaults
SchemaDriftDetector(cfg) ==
    [cardinality_warning_ratio |-> DictGet(cfg, "cardinality_warning_ratio", Rat(2, 1)),
     cardinality_critical_ratio |-> DictGet(cfg, "cardinality_critical_ratio", Rat(5, 1))]

\* a grading step 1 could have had: every new field reported as INFO,
\* whether it can be null or not
FieldAddedInfoOnly(cp, bw, cw, field) ==
    <<DriftResult("schema", "schema", field, bw, cw, "field_added",
                  Rat(1, 2), "INFO")>>

\* step 1 of detect: one finding per field of new_fields
FieldAdded(cp, bw, cw, field) ==
    LET nullable == cp.fields[field].nullable
    IN  <<DriftResult("schema", "schema", field, bw, cw, "field_added",
                      IF nullable THEN Rat(1, 2) ELSE Rat(4, 5),
                      IF nullable THEN "INFO" ELSE "WARNING")>>

\* a bug step 2 could have: removal graded like addition, by nullability
FieldRemovedGraded(bp, bw, cw, field) ==
    LET nullable == bp.fields[field].nullable
    IN  <<DriftResult("schema", "schema", field, bw, cw, "field_removed",
                      IF nullable THEN Rat(1, 2) ELSE One,
                      IF nullable THEN "WARNING" ELSE "CRITICAL")>>

\* step 2 of detect: one finding per field of removed_fields
FieldRemoved(bp, bw, cw, field) ==
    <<DriftResult("schema", "schema", field, bw, cw, "field_removed",
                  One, "CRITICAL")>>

\* a reading step 3 could have had: a field without any value on one side
\* (dominant type "null") not counted as having changed its type
TypeChangeBetweenValues(bp, cp, bw, cw, field) ==
    IF /\ bp.fields[field].type # cp.fields[field].type
       /\ "null" \notin {bp.fields[field].type, cp.fields[field].type}
    THEN <<DriftResult("schema", "schema", field, bw, cw, "type_change",
                       One, "CRITICAL")>>
    ELSE <<>>

\* step 3 of detect, first half: type change of a common field
TypeChange(bp, cp, bw, cw, field) ==
    IF bp.fields[field].type # cp.fields[field].type
    THEN <<DriftResult("schema", "schema", field, bw, cw, "type_change",
                       One, "CRITICAL")>>
    ELSE <<>>

\* an ordering the two tests could have had: the warning ratio tried first,
\* which leaves the critical branch dead whenever warning <= critical
CardinalityExplosionWarningFirst(det, bp, cp, bw, cw, field) ==
    LET baseline_card == bp.fields[field].cardinality
        current_card == cp.fields[field].cardinality
        card_ratio == Rat(current_card, baseline_card)
    IN  IF baseline_card > 0 /\ current_card > 0
        THEN IF RGe(card_ratio, det.cardinality_warning_ratio)
             THEN <<DriftResult("schema", "schema", field, bw, cw,
                                "cardinality_explosion",
                                RDiv(card_ratio, Rat(10, 1)), "WARNING")>>
             ELSE IF RGe(card_ratio, det.cardinality_critical_ratio)
             THEN <<DriftResult("schema", "schema", field, bw, cw,
                                "cardinality_explosion",
                                RMin1(RDiv(card_ratio, Rat(10, 1))), "CRITICAL")>>
             ELSE <<>>
        ELSE <<>>

\* step 3 of detect, second half: cardinality explosion of a common field
CardinalityExplosion(det, bp, cp, bw, cw, field) ==
    LET baseline_card == bp.fields[field].cardinality
        current_card == cp.fields[field].cardinality
        card_ratio == Rat(current_card, baseline_card)
    IN  IF baseline_card > 0 /\ current_card > 0
        THEN IF RGe(card_ratio, det.cardinality_critical_ratio)
             THEN <<DriftResult("schema", "schema", field, bw, cw,
                                "cardinality_explosion",
                                RMin1(RDiv(card_ratio, Rat(10, 1))), "CRITICAL")>>
             ELSE IF RGe(card_ratio, det.cardinality_warning_ratio)
             THEN <<DriftResult("schema", "schema", field, bw, cw,
                                "cardinality_explosion",
                                RDiv(card_ratio, Rat(10, 1)), "WARNING")>>
             ELSE <<>>
        ELSE <<>>

\* SchemaDriftDetector.detect
SchemaDetect(det, bp, cp, bw, cw) ==
    LET baseline_fields == DOMAIN bp.fields
        current_fields == DOMAIN cp.fields
        new_fields == current_fields \ baseline_fields
        removed_fields == baseline_fields \ current_fields
        common_fields == baseline_fields \cap current_fields
        Added == [f \in new_fields |-> FieldAdded(cp, bw, cw, f)]
        Removed == [f \in removed_fields |-> FieldRemoved(bp, bw, cw, f)]
        Common == [f \in common_fields |->
                      TypeChange(bp, cp, bw, cw, f)
                      \o CardinalityExplosion(det, bp, cp, bw, cw, f)]
    IN  FlatMap(Added, SetToSeq(new_fields))
        \o FlatMap(Removed, SetToSeq(removed_fields))
        \o FlatMap(Common, SetToSeq(common_fields))

-----------------------------------------------------------------------------
(* Values of the variables a specification does not use *)

NoCall == [fn |-> "none"]

NoRet == [done |-> FALSE, value |-> <<>>]

NoProfiles == [built |-> FALSE]

NoSummary == [made |-> FALSE]

\* no ValidationEngine has been constructed
NoEngine == [made |-> FALSE]

\* drift_service is not running
NoService ==
    [pc |-> "off", clock |-> 0, interval |-> 0, next_run |-> 0,
     in_flight |-> 0, started |-> 0, last |-> "none"]

RunnerAtRest ==
    /\ pc = "idle"
    /\ config = [sections |-> {}]
    /\ reference_time = 0
    /\ baseline_window = NoWindow
    /\ current_window = NoWindow
    /\ baseline_data = <<>>
    /\ current_data = <<>>
    /\ profiles = NoProfiles
    /\ returned = NoSummary
    /\ raised = "none"
    /\ steps = <<>>
    /\ fetch_attempts = [baseline |-> 0, current |-> 0]
    /\ store = <<>>
    /\ persist_calls = <<>>
    /\ writer = "unused"
    /\ runs = 0

RunnerIdle ==
    /\ RunnerAtRest
    /\ service = NoService
    /\ validation_engine = NoEngine

PureIdle ==
    /\ call = NoCall
    /\ ret = NoRet

-----------------------------------------------------------------------------
(* drift_engine/detectors/volume_drift.py *)

\* VolumeDriftDetector.__init__: thresholds with their defaults
VolumeDriftDetector(cfg) ==
    [z_score_info_threshold |-> DictGet(DictGet(cfg, "z_score", <<>>), "info", Rat(2, 1)),
     z_score_warning_threshold |-> DictGet(DictGet(cfg, "z_score", <<>>), "warning", Rat(3, 1)),
     percent_info_threshold |-> DictGet(DictGet(cfg, "percent_change", <<>>), "info", Rat(1, 5)),
     percent_warning_threshold |-> DictGet(DictGet(cfg, "percent_change", <<>>), "warning", Rat(1, 2))]

\* lines 108-109: events per hour
event_rate(profile, duration) == RDiv(Rat(profile.total_count, 1), Rat(duration, 1))

\* lines 128-132, as every caller of the repository calls detect:
\* baseline_profiles is None, so the standard deviation is taken as 10% of
\* the baseline rate
global_z_score(baseline_rate, current_rate) ==
    LET std_rate == Rat(baseline_rate.n, baseline_rate.d * 10)
    IN  IF RLt(Zero, std_rate)
        THEN RDiv(RSub(current_rate, baseline_rate), std_rate)
        ELSE Zero

\* lines 134-136
global_percent_change(baseline_rate, current_rate) ==
    IF RLt(Zero, baseline_rate)
    THEN RDiv(RSub(current_rate, baseline_rate), baseline_rate)
    ELSE Zero

\* a bug lines 141-148 could have: a tier is entered only when both metrics
\* cross their thresholds
GlobalRateChangeBoth(det, bw, cw, baseline_rate, current_rate) ==
    LET abs_z_score == RAbs(global_z_score(baseline_rate, current_rate))
        abs_percent == RAbs(global_percent_change(baseline_rate, current_rate))
    IN  IF /\ RGe(abs_z_score, det.z_score_warning_threshold)
           /\ RGe(abs_percent, det.percent_warning_threshold)
        THEN <<DriftResult("volume", "global", "None", bw, cw, "event_rate_change",
                           RMin1(RDiv(abs_z_score, Rat(5, 1))), "CRITICAL")>>
        ELSE IF /\ RGe(abs_z_score, det.z_score_info_threshold)
                /\ RGe(abs_percent, det.percent_info_threshold)
        THEN <<DriftResult("volume", "global", "None", bw, cw, "event_rate_change",
                           RDiv(abs_z_score, Rat(5, 1)), "WARNING")>>
        ELSE <<>>

\* lines 138-181: the severity of the change between the two rates and the
\* finding, if any
GlobalRateChange(det, bw, cw, baseline_rate, current_rate) ==
    LET abs_z_score == RAbs(global_z_score(baseline_rate, current_rate))
        abs_percent == RAbs(global_percent_change(baseline_rate, current_rate))
    IN  IF \/ RGe(abs_z_score, det.z_score_warning_threshold)
           \/ RGe(abs_percent, det.percent_warning_threshold)
        THEN <<DriftResult("volume", "global", "None", bw, cw, "event_rate_change",
                           RMin1(RDiv(abs_z_score, Rat(5, 1))), "CRITICAL")>>
        ELSE IF \/ RGe(abs_z_score, det.z_score_info_threshold)
                \/ RGe(abs_percent, det.percent_info_threshold)
        THEN <<DriftResult("volume", "global", "None", bw, cw, "event_rate_change",
                           RDiv(abs_z_score, Rat(5, 1)), "WARNING")>>
        ELSE <<>>

\* a bug the global check could have: no test of the durations, so that the
\* division of line 108 or 109 raises ZeroDivisionError
DetectGlobalVolumeDriftUnguarded(det, bp, cp, bw, cw) ==
    IF duration_hours(bw) = 0 \/ duration_hours(cw) = 0
    THEN <<[exception |-> "ZeroDivisionError"]>>
    ELSE GlobalRateChange(det, bw, cw, event_rate(bp, duration_hours(bw)),
                          event_rate(cp, duration_hours(cw)))

\* a bug the global check could have: the counts compared as they are, not
\* per hour of their windows
DetectGlobalVolumeDriftByCount(det, bp, cp, bw, cw) ==
    IF duration_hours(bw) = 0 \/ duration_hours(cw) = 0 THEN <<>>
    ELSE GlobalRateChange(det, bw, cw, event_rate(bp, 1), event_rate(cp, 1))

\* VolumeDriftDetector._detect_global_volume_drift
DetectGlobalVolumeDrift(det, bp, cp, bw, cw) ==
    LET baseline_duration == duration_hours(bw)
        current_duration == duration_hours(cw)
    IN  IF baseline_duration = 0 \/ current_duration = 0 THEN <<>>
        ELSE GlobalRateChange(det, bw, cw, event_rate(bp, baseline_duration),
                              event_rate(cp, current_duration))

\* a comparison the per-entity check could have had: per-hour rates of the
\* entity, as the global check compares them, nothing when a window is empty
EntityCountChangeByRate(det, bw, cw, entity_field, entity_value, baseline_count, current_count) ==
    LET baseline_duration == duration_hours(bw)
        current_duration == duration_hours(cw)
        percent_change ==
            IF baseline_count > 0
            THEN Rat(current_count * baseline_duration - baseline_count * current_duration,
                     baseline_count * current_duration)
            ELSE IF current_count > 0 THEN One ELSE Zero
        abs_percent_change == RAbs(percent_change)
    IN  IF baseline_duration = 0 \/ current_duration = 0 THEN <<>>
        ELSE IF RGe(abs_percent_change, det.percent_warning_threshold)
        THEN <<DriftResult("volume", entity_field, entity_value, bw, cw,
                           "entity_count_change", RMin1(abs_percent_change), "WARNING")>>
        ELSE IF RGe(abs_percent_change, det.percent_info_threshold)
        THEN <<DriftResult("volume", entity_field, entity_value, bw, cw,
                           "entity_count_change", abs_percent_change, "INFO")>>
        ELSE <<>>

\* a grading the per-entity check could have had: that of the global check,
\* CRITICAL from the warning threshold and WARNING from the info threshold
EntityCountChangeGradedAsGlobal(det, bw, cw, entity_field, entity_value, baseline_count, current_count) ==
    LET percent_change ==
            IF baseline_count > 0
            THEN Rat(current_count - baseline_count, baseline_count)
            ELSE IF current_count > 0 THEN One ELSE Zero
        abs_percent_change == RAbs(percent_change)
    IN  IF RGe(abs_percent_change, det.percent_warning_threshold)
        THEN <<DriftResult("volume", entity_field, entity_value, bw, cw,
                           "entity_count_change", RMin1(abs_percent_change), "CRITICAL")>>
        ELSE IF RGe(abs_percent_change, det.percent_info_threshold)
        THEN <<DriftResult("volume", entity_field, entity_value, bw, cw,
                           "entity_count_change", abs_percent_change, "WARNING")>>
        ELSE <<>>

\* the body of the inner loop of _detect_per_entity_volume_drift: one entity
\* value present in both profiles
EntityCountChange(det, bw, cw, entity_field, entity_value, baseline_count, current_count) ==
    LET percent_change ==
            IF baseline_count > 0
            THEN Rat(current_count - baseline_count, baseline_count)
            ELSE IF current_count > 0 THEN One ELSE Zero
        abs_percent_change == RAbs(percent_change)
    IN  IF RGe(abs_percent_change, det.percent_warning_threshold)
        THEN <<DriftResult("volume", entity_field, entity_value, bw, cw,
                           "entity_count_change", RMin1(abs_percent_change), "WARNING")>>
        ELSE IF RGe(abs_percent_change, det.percent_info_threshold)
        THEN <<DriftResult("volume", entity_field, entity_value, bw, cw,
                           "entity_count_change", abs_percent_change, "INFO")>>
        ELSE <<>>

\* VolumeDriftDetector._detect_per_entity_volume_drift
DetectPerEntityVolumeDrift(det, bp, cp, bw, cw) ==
    LET PerField ==
            [entity_field \in DOMAIN bp.per_entity |->
                IF entity_field \notin DOMAIN cp.per_entity THEN <<>>
                ELSE LET baseline_entities == bp.per_entity[entity_field]
                         current_entities == cp.per_entity[entity_field]
                         common_entities == (DOMAIN baseline_entities)
                                            \cap (DOMAIN current_entities)
                     IN  FlatMap([v \in common_entities |->
                                     EntityCountChange(det, bw, cw, entity_field, v,
                                                       baseline_entities[v],
                                                       current_entities[v])],
                                 SetToSeq(common_entities))]
    IN  FlatMap(PerField, SetToSeq(DOMAIN bp.per_entity))

\* VolumeDriftDetector.detect
VolumeDetect(det, bp, cp, bw, cw) ==
    DetectGlobalVolumeDrift(det, bp, cp, bw, cw)
    \o DetectPerEntityVolumeDrift(det, bp, cp, bw, cw)

-----------------------------------------------------------------------------
(* drift_engine/detectors/distribution_drift.py *)

\* DistributionDriftDetector.__init__: thresholds with their defaults
DistributionDriftDetector(cfg) ==
    [psi_info_threshold |-> DictGet(DictGet(cfg, "psi", <<>>), "info", Rat(1, 10)),
     psi_warning_threshold |-> DictGet(DictGet(cfg, "psi", <<>>), "warning", Rat(1, 4)),
     null_warning_threshold |->
        DictGet(DictGet(cfg, "null_ratio_change", <<>>), "warning", Rat(1, 10)),
     null_critical_threshold |->
        DictGet(DictGet(cfg, "null_ratio_change", <<>>), "critical", Rat(1, 4))]

\* math.log of the integers 1..20, in millionths
LnTable ==
    <<0, 693147, 1098612, 1386294, 1609438, 1791759, 1945910, 2079442,
      2197225, 2302585, 2397895, 2484907, 2564949, 2639057, 2708050,
      2772589, 2833213, 2890372, 2944439, 2995732>>

\* math.log(1e-10), in millionths
LnFloor == -23025851

\* math.log(x) in millionths, for a proportion x = n/d or the 1e-10 floor
LnMicro(x) == IF x.floor THEN LnFloor ELSE LnTable[x.r.n] - LnTable[x.r.d]

\* lines 286-293: dist.get(value, 1e-10), raised to 1e-10 when below it
FlooredPct(dist, value) ==
    IF value \in DOMAIN dist /\ dist[value].n > 0
    THEN [floor |-> FALSE, r |-> dist[value]]
    ELSE [floor |-> TRUE, r |-> Zero]

\* a bug line 295 could have: the term of a Kullback-Leibler divergence,
\* current_pct * math.log(current_pct / baseline_pct)
KlTerm(baseline_pct, current_pct) ==
    (current_pct.r.n * (LnMicro(current_pct) - LnMicro(baseline_pct)))
        \div current_pct.r.d

\* line 295: (current_pct - baseline_pct) * math.log(current_pct / baseline_pct)
\* in millionths; a floored proportion counts as 0 in the difference (an
\* error below 1e-8) and as 1e-10 in the logarithm
PsiTerm(baseline_pct, current_pct) ==
    LET diff == RSub(current_pct.r, baseline_pct.r)
    IN  (diff.n * (LnMicro(current_pct) - LnMicro(baseline_pct))) \div diff.d

RECURSIVE SumPsiTerms(_, _, _)
SumPsiTerms(baseline_dist, current_dist, values) ==
    IF values = <<>> THEN 0
    ELSE PsiTerm(FlooredPct(baseline_dist, Head(values)),
                 FlooredPct(current_dist, Head(values)))
         + SumPsiTerms(baseline_dist, current_dist, Tail(values))

\* DistributionDriftDetector._calculate_psi, to the millionth
calculate_psi(baseline_dist, current_dist) ==
    LET all_values == (DOMAIN baseline_dist) \cup (DOMAIN current_dist)
        psi == SumPsiTerms(baseline_dist, current_dist, SetToSeq(all_values))
    IN  RAbs(Rat(psi, 1000000))

\* a bug lines 111-118 could have: a field below both thresholds reported
\* with the score it has
CategoricalDriftAlwaysReporting(det, bp, cp, bw, cw, field) ==
    LET psi_score == calculate_psi(bp.categorical[field], cp.categorical[field])
    IN  IF RGe(psi_score, det.psi_warning_threshold)
        THEN <<DriftResult("distribution", "categorical", field, bw, cw, "psi",
                           RMin1(RDiv(psi_score, Rat(1, 2))), "CRITICAL")>>
        ELSE IF RGe(psi_score, det.psi_info_threshold)
        THEN <<DriftResult("distribution", "categorical", field, bw, cw, "psi",
                           RDiv(psi_score, Rat(1, 2)), "WARNING")>>
        ELSE <<DriftResult("distribution", "categorical", field, bw, cw, "psi",
                           RDiv(psi_score, Rat(1, 2)), "INFO")>>

\* a bug lines 111-118 could have: the tiers named after their thresholds,
\* WARNING from psi.warning and INFO from psi.info
CategoricalDriftInfoTier(det, bp, cp, bw, cw, field) ==
    LET psi_score == calculate_psi(bp.categorical[field], cp.categorical[field])
    IN  IF RGe(psi_score, det.psi_warning_threshold)
        THEN <<DriftResult("distribution", "categorical", field, bw, cw, "psi",
                           RMin1(RDiv(psi_score, Rat(1, 2))), "WARNING")>>
        ELSE IF RGe(psi_score, det.psi_info_threshold)
        THEN <<DriftResult("distribution", "categorical", field, bw, cw, "psi",
                           RDiv(psi_score, Rat(1, 2)), "INFO")>>
        ELSE <<>>

\* the loop body of _detect_categorical_drift
CategoricalDrift(det, bp, cp, bw, cw, field) ==
    LET psi_score == calculate_psi(bp.categorical[field], cp.categorical[field])
    IN  IF RGe(psi_score, det.psi_warning_threshold)
        THEN <<DriftResult("distribution", "categorical", field, bw, cw, "psi",
                           RMin1(RDiv(psi_score, Rat(1, 2))), "CRITICAL")>>
        ELSE IF RGe(psi_score, det.psi_info_threshold)
        THEN <<DriftResult("distribution", "categorical", field, bw, cw, "psi",
                           RDiv(psi_score, Rat(1, 2)), "WARNING")>>
        ELSE <<>>

\* a reading of line 160 the check could have had: a baseline std of 0
\* replaced by the default 1 of the lookup, not by a shift of 0
NumericalDriftUnitStd(bp, cp, bw, cw, field) ==
    LET baseline_mean == bp.numerical[field].mean
        baseline_std == IF RLt(Zero, bp.numerical[field].std)
                        THEN bp.numerical[field].std ELSE One
        current_mean == cp.numerical[field].mean
        mean_shift == RDiv(RAbs(RSub(current_mean, baseline_mean)), baseline_std)
    IN  IF RGe(mean_shift, Rat(3, 1))
        THEN <<DriftResult("distribution", "numerical", field, bw, cw, "mean_shift",
                           RMin1(RDiv(mean_shift, Rat(5, 1))), "CRITICAL")>>
        ELSE IF RGe(mean_shift, Rat(2, 1))
        THEN <<DriftResult("distribution", "numerical", field, bw, cw, "mean_shift",
                           RDiv(mean_shift, Rat(5, 1)), "WARNING")>>
        ELSE IF RGe(mean_shift, One)
        THEN <<DriftResult("distribution", "numerical", field, bw, cw, "mean_shift",
                           RDiv(mean_shift, Rat(5, 1)), "INFO")>>
        ELSE <<>>

\* the loop body of _detect_numerical_drift
NumericalDrift(bp, cp, bw, cw, field) ==
    LET baseline_mean == bp.numerical[field].mean
        baseline_std == bp.numerical[field].std
        current_mean == cp.numerical[field].mean
        mean_shift == IF RLt(Zero, baseline_std)
                      THEN RDiv(RAbs(RSub(current_mean, baseline_mean)), baseline_std)
                      ELSE Zero
    IN  IF RGe(mean_shift, Rat(3, 1))
        THEN <<DriftResult("distribution", "numerical", field, bw, cw, "mean_shift",
                           RMin1(RDiv(mean_shift, Rat(5, 1))), "CRITICAL")>>
        ELSE IF RGe(mean_shift, Rat(2, 1))
        THEN <<DriftResult("distribution", "numerical", field, bw, cw, "mean_shift",
                           RDiv(mean_shift, Rat(5, 1)), "WARNING")>>
        ELSE IF RGe(mean_shift, One)
        THEN <<DriftResult("distribution", "numerical", field, bw, cw, "mean_shift",
                           RDiv(mean_shift, Rat(5, 1)), "INFO")>>
        ELSE <<>>

\* the loop body of _detect_null_ratio_drift
NullRatioDrift(det, bp, cp, bw, cw, field) ==
    LET null_ratio_change == RAbs(RSub(cp.null_ratios[field], bp.null_ratios[field]))
    IN  IF RGe(null_ratio_change, det.null_critical_threshold)
        THEN <<DriftResult("distribution", "null_ratio", field, bw, cw,
                           "null_ratio_change",
                           RMin1(RDiv(null_ratio_change, Rat(1, 2))), "CRITICAL")>>
        ELSE IF RGe(null_ratio_change, det.null_warning_threshold)
        THEN <<DriftResult("distribution", "null_ratio", field, bw, cw,
                           "null_ratio_change",
                           RDiv(null_ratio_change, Rat(1, 2)), "WARNING")>>
        ELSE <<>>

\* a choice of fields the categorical check could have made: every field
\* either profile tracks, one that a side lacks compared as an empty
\* distribution
DistributionDetectOverUnion(det, bp, cp, bw, cw) ==
    LET all_fields == (DOMAIN bp.categorical) \cup (DOMAIN cp.categorical)
        Filled(p) == [p EXCEPT !.categorical =
                         [f \in all_fields |-> DictGet(p.categorical, f, <<>>)]]
        num_fields == (DOMAIN bp.numerical) \cap (DOMAIN cp.numerical)
        null_fields == (DOMAIN bp.null_ratios) \cap (DOMAIN cp.null_ratios)
    IN  FlatMap([f \in all_fields |->
                    CategoricalDrift(det, Filled(bp), Filled(cp), bw, cw, f)],
                SetToSeq(all_fields))
        \o FlatMap([f \in num_fields |-> NumericalDrift(bp, cp, bw, cw, f)],
                   SetToSeq(num_fields))
        \o FlatMap([f \in null_fields |-> NullRatioDrift(det, bp, cp, bw, cw, f)],
                   SetToSeq(null_fields))

\* DistributionDriftDetector.detect: the three sub-checks in order, each over
\* the fields common to both profiles
DistributionDetect(det, bp, cp, bw, cw) ==
    LET cat_fields == (DOMAIN bp.categorical) \cap (DOMAIN cp.categorical)
        num_fields == (DOMAIN bp.numerical) \cap (DOMAIN cp.numerical)
        null_fields == (DOMAIN bp.null_ratios) \cap (DOMAIN cp.null_ratios)
    IN  FlatMap([f \in cat_fields |-> CategoricalDrift(det, bp, cp, bw, cw, f)],
                SetToSeq(cat_fields))
        \o FlatMap([f \in num_fields |-> NumericalDrift(bp, cp, bw, cw, f)],
                   SetToSeq(num_fields))
        \o FlatMap([f \in null_fields |-> NullRatioDrift(det, bp, cp, bw, cw, f)],
                   SetToSeq(null_fields))

-----------------------------------------------------------------------------
(* Calls of the detectors on enumerated profiles *)

DetWindows == [baseline |-> TimeWindow(0, 24), current |-> TimeWindow(24, 25)]

\* what from_records can record for a field: no non-null value at all, or a
\* dominant type with a positive number of distinct values
FieldInfos ==
    {[type |-> "null", nullable |-> TRUE, cardinality |-> 0]}
    \cup {[type |-> t, nullable |-> nl, cardinality |-> c] :
            t \in {"str", "int"}, nl \in BOOLEAN, c \in {1, 2, 5, MaxCard}}

IdInfos ==
    {[type |-> t, nullable |-> FALSE, cardinality |-> 1] : t \in {"str", "int"}}

SchemaProfiles ==
    {[fields |-> f, row_count |-> 500] :
        f \in {g \in UNION {[F -> FieldInfos] : F \in SUBSET {"x", "id"}} :
                  "id" \in DOMAIN g => g["id"] \in IdInfos}}

SchemaThresholds ==
    {<<>>,
     [cardinality_critical_ratio |-> Rat(20, 1)],
     [cardinality_warning_ratio |-> Rat(3, 1), cardinality_critical_ratio |-> Rat(6, 1)]}

InitSchemaCall ==
    \E cfg \in SchemaThresholds, bp \in SchemaProfiles, cp \in SchemaProfiles :
        call = [fn |-> "schema_detect", detector |-> SchemaDriftDetector(cfg),
                baseline_profile |-> bp, current_profile |-> cp,
                baseline_window |-> DetWindows.baseline,
                current_window |-> DetWindows.current]

\* per_entity of a VolumeProfile over the dimension "type": absent, or the
\* counts (all positive, as Counter gives them) of the values seen
PerEntities ==
    {<<>>}
    \cup {[type |-> m] :
            m \in UNION {[V -> 1..MaxEntityCount] : V \in (SUBSET {"A", "B"}) \ {{}}}}

RECURSIVE SumCounts(_, _)
SumCounts(m, keys) ==
    IF keys = {} THEN 0
    ELSE LET k == CHOOSE x \in keys : TRUE IN m[k] + SumCounts(m, keys \ {k})

\* total_count is the batch size: the records counted under "type" and
\* possibly records whose "type" is null
VolumeProfiles ==
    {[total_count |-> (IF pe = <<>> THEN 0 ELSE SumCounts(pe.type, DOMAIN pe.type)) + extra,
      per_entity |-> pe] :
        pe \in PerEntities, extra \in {0, 6}}

VolumeThresholds ==
    {<<>>,
     [z_score |-> [info |-> Rat(2, 1), warning |-> Rat(3, 1)],
      percent_change |-> [info |-> Rat(1, 5), warning |-> Rat(1, 2)]],
     [z_score |-> [warning |-> Rat(8, 1)],
      percent_change |-> [warning |-> Rat(2, 1)]],
     [z_score |-> [info |-> Rat(50, 1), warning |-> Rat(100, 1)]]}

VolumeWindowPairs ==
    {[baseline |-> TimeWindow(0, b), current |-> TimeWindow(b, b + c)] :
        b \in {0, 24, 48}, c \in {0, 1, 24}}

InitVolumeCall ==
    \E cfg \in VolumeThresholds, bp \in VolumeProfiles, cp \in VolumeProfiles,
       w \in VolumeWindowPairs :
        call = [fn |-> "volume_detect", detector |-> VolumeDriftDetector(cfg),
                baseline_profile |-> bp, current_profile |-> cp,
                baseline_window |-> w.baseline, current_window |-> w.current]

\* categorical distributions of one field: proportions that sum to 1
Distributions ==
    {[A |-> One], [B |-> One],
     [A |-> Rat(1, 2), B |-> Rat(1, 2)],
     [A |-> Rat(1, 4), B |-> Rat(3, 4)],
     [A |-> Rat(3, 4), B |-> Rat(1, 4)],
     [A |-> Rat(2, 5), B |-> Rat(3, 5)]}

NullRatios == {Zero, Rat(1, 8), Rat(7, 8), One}

\* StatisticalProfiles of a run with categorical_fields = ["type"] and no
\* numerical field: a field all of whose values are null has no distribution
CategoricalProfiles ==
    {p \in [categorical : {<<>>} \cup {[type |-> d] : d \in Distributions},
            numerical : {<<>>},
            null_ratios : {[type |-> nr] : nr \in NullRatios}] :
        "type" \in DOMAIN p.categorical => p.null_ratios.type # One}

\* StatisticalProfiles of a run with numerical_fields = ["size"] and no
\* categorical field
NumericalProfiles ==
    {[categorical |-> <<>>, numerical |-> [size |-> [mean |-> Rat(m, 1), std |-> Rat(sd, 1)]],
      null_ratios |-> [size |-> nr]] :
        m \in {0, 1, 3, 10}, sd \in {0, 1, 2}, nr \in {Zero, Rat(1, 8)}}
    \cup {[categorical |-> <<>>, numerical |-> <<>>, null_ratios |-> [size |-> One]]}

DistributionThresholds ==
    {<<>>,
     [psi |-> [info |-> Rat(1, 10), warning |-> Rat(1, 4)],
      null_ratio_change |-> [warning |-> Rat(1, 10), critical |-> Rat(1, 4)]],
     [psi |-> [warning |-> One],
      null_ratio_change |-> [critical |-> Rat(9, 10)]]}

InitDistributionCall ==
    \E cfg \in DistributionThresholds,
       bp \in CategoricalProfiles \cup NumericalProfiles,
       cp \in CategoricalProfiles \cup NumericalProfiles :
        call = [fn |-> "distribution_detect",
                detector |-> DistributionDriftDetector(cfg),
                baseline_profile |-> bp, current_profile |-> cp,
                baseline_window |-> DetWindows.baseline,
                current_window |-> DetWindows.current]

\* examples/simulate_drift.py: the 'type' proportions of the baseline events
\* and of generate_distribution_drift_events, as the profiles of batches of
\* 1,000 and of 200 records hold them (0.45 = 450/1000 = 9/20, ...)
BaselineTypeShare ==
    [A |-> Rat(9, 20), B |-> Rat(4, 20), C |-> Rat(3, 20), D |-> Rat(2, 20),
     E |-> Rat(2, 20)]

ShiftedTypeShare ==
    [A |-> Rat(13, 20), B |-> Rat(3, 20), C |-> Rat(2, 20), D |-> Rat(1, 20),
     E |-> Rat(1, 20)]

TypeProfile(share) ==
    [categorical |-> [type |-> share], numerical |-> <<>>,
     null_ratios |-> [type |-> Zero]]

\* the detector with its default thresholds on the two batches
InitTypeShiftCall ==
    call = [fn |-> "distribution_detect",
            detector |-> DistributionDriftDetector(<<>>),
            baseline_profile |-> TypeProfile(BaselineTypeShare),
            current_profile |-> TypeProfile(ShiftedTypeShare),
            baseline_window |-> DetWindows.baseline,
            current_window |-> DetWindows.current]

\* arguments of _calculate_psi: distributions with common values, with
\* values of one side only, and with a proportion of 0
PsiDistributions ==
    Distributions
    \cup {[A |-> One, B |-> Zero], [C |-> One], [A |-> Rat(1, 4), C |-> Rat(3, 4)],
          BaselineTypeShare, ShiftedTypeShare}

InitPsiCall ==
    \E a \in PsiDistributions, b \in PsiDistributions :
        call = [fn |-> "calculate_psi", baseline_dist |-> a, current_dist |-> b]

InitDetectors ==
    /\ RunnerIdle
    /\ summary = NoSummary
    /\ ret = NoRet
    /\ \/ InitSchemaCall
       \/ InitDistributionCall
       \/ InitTypeShiftCall
       \/ InitPsiCall
       \/ InitVolumeCall

ApplySchemaDetect ==
    /\ call.fn = "schema_detect"
    /\ ~ret.done
    /\ ret' = [done |-> TRUE,
               value |-> SchemaDetect(call.detector, call.baseline_profile,
                                      call.current_profile, call.baseline_window,
                                      call.current_window)]
    /\ UNCHANGED <<runner_vars, summary, call>>

ApplyDistributionDetect ==
    /\ call.fn = "distribution_detect"
    /\ ~ret.done
    /\ ret' = [done |-> TRUE,
               value |-> DistributionDetect(call.detector, call.baseline_profile,
                                            call.current_profile, call.baseline_window,
                                            call.current_window)]
    /\ UNCHANGED <<runner_vars, summary, call>>

ApplyVolumeDetect ==
    /\ call.fn = "volume_detect"
    /\ ~ret.done
    /\ ret' = [done |-> TRUE,
               value |-> VolumeDetect(call.detector, call.baseline_profile,
                                      call.current_profile, call.baseline_window,
                                      call.current_window)]
    /\ UNCHANGED <<runner_vars, summary, call>>

ApplyCalculatePsi ==
    /\ call.fn = "calculate_psi"
    /\ ~ret.done
    /\ ret' = [done |-> TRUE,
               value |-> calculate_psi(call.baseline_dist, call.current_dist)]
    /\ UNCHANGED <<runner_vars, summary, call>>

NextDetectors ==
    \/ ApplySchemaDetect
    \/ ApplyDistributionDetect
    \/ ApplyCalculatePsi
    \/ ApplyVolumeDetect

SpecDetectors == InitDetectors /\ [][NextDetectors]_vars

\* the findings of a returned detect call about one field
FindingsFor(field) ==
    {i \in 1..Len(ret.value) : ret.value[i].field_name = field}

\* C3: for every field of the baseline schema profile that the current one
\* lacks, SchemaDriftDetector.detect returns exactly one finding about that
\* field, and it is field_removed, CRITICAL, with drift_score 1.0, whatever
\* the cardinality thresholds.
C3_RemovedFieldOneCritical ==
    (call.fn = "schema_detect" /\ ret.done) =>
        \A f \in (DOMAIN call.baseline_profile.fields)
                 \ (DOMAIN call.current_profile.fields) :
            /\ Cardinality(FindingsFor(f)) = 1
            /\ \A i \in FindingsFor(f) :
                  /\ ret.value[i].metric_name = "field_removed"
                  /\ ret.value[i].severity = "CRITICAL"
                  /\ ret.value[i].drift_score = One
                  /\ ret.value[i].drift_type = "schema"

C3_Witness ==
    /\ call.fn = "schema_detect"
    /\ ret.done
    /\ "x" \in DOMAIN call.baseline_profile.fields
    /\ "x" \notin DOMAIN call.current_profile.fields
    /\ call.baseline_profile.fields["x"].nullable
    /\ call.detector.cardinality_critical_ratio = Rat(20, 1)
    /\ Len(ret.value) >= 2

DetectReturned ==
    call.fn \in {"schema_detect", "distribution_detect", "volume_detect"} /\ ret.done

\* C9: every DriftResult a detector returns has 0 <= drift_score <= 1, for
\* all profiles, windows and configured thresholds.
C9_ScoreInUnitInterval ==
    DetectReturned =>
        \A i \in 1..Len(ret.value) :
            /\ RLe(Zero, ret.value[i].drift_score)
            /\ RLe(ret.value[i].drift_score, One)

VolumeReturned == call.fn = "volume_detect" /\ ret.done

ZeroDuration ==
    \/ duration_hours(call.baseline_window) = 0
    \/ duration_hours(call.current_window) = 0

\* the findings of a returned volume call that the global check made
GlobalFindings == {i \in 1..Len(ret.value) : ret.value[i].entity = "global"}

\* what the per-entity check finds on the profiles of the call
PerEntityOfCall ==
    DetectPerEntityVolumeDrift(call.detector, call.baseline_profile,
                               call.current_profile, call.baseline_window,
                               call.current_window)

\* C11 as stated: with a baseline or a current window of duration 0 the
\* detector returns an empty list, whatever the profiles contain.
C11_ZeroDurationEmptyList ==
    (VolumeReturned /\ ZeroDuration) => ret.value = <<>>

\* C11, amended: with a baseline or a current window of duration 0 the
\* global check is skipped without an exception: detect returns no 'global'
\* finding, and what it returns are the findings of the per-entity check,
\* which does not look at the windows' durations.
C11_ZeroDurationSkipsGlobalCheck ==
    (VolumeReturned /\ ZeroDuration) =>
        /\ ret.value = PerEntityOfCall
        /\ GlobalFindings = {}

\* a call with an empty baseline window that still returned a finding
C11_Witness ==
    /\ VolumeReturned
    /\ duration_hours(call.baseline_window) = 0
    /\ duration_hours(call.current_window) > 0
    /\ call.baseline_profile.total_count > 0
    /\ ret.value # <<>>

\* both durations non-zero and total_count / duration equal on both sides
SameRate ==
    /\ ~ZeroDuration
    /\ call.baseline_profile.total_count * duration_hours(call.current_window)
          = call.current_profile.total_count * duration_hours(call.baseline_window)

\* C12: when the two profiles have the same number of events per hour of
\* their (non-empty) windows, detect returns no finding with entity
\* 'global', for every positive setting of the thresholds.
C12_SameRateNoGlobalFinding ==
    (VolumeReturned /\ SameRate) => GlobalFindings = {}

\* equal rates from different counts over windows of different lengths
C12_Witness ==
    /\ VolumeReturned
    /\ SameRate
    /\ call.current_profile.total_count > 0
    /\ call.baseline_profile.total_count # call.current_profile.total_count

DistributionReturned == call.fn = "distribution_detect" /\ ret.done

\* C13: a StatisticalProfile compared with an identical one has PSI 0 on
\* every categorical field, and detect returns no finding of any kind, for
\* every positive setting of the thresholds.
C13_IdenticalProfilesNoFinding ==
    (DistributionReturned /\ call.baseline_profile = call.current_profile) =>
        /\ \A f \in DOMAIN call.baseline_profile.categorical :
              calculate_psi(call.baseline_profile.categorical[f],
                            call.current_profile.categorical[f]) = Rat(0, 1000000)
        /\ ret.value = <<>>

\* identical profiles with a two-valued categorical field were compared
C13_Witness ==
    /\ DistributionReturned
    /\ call.baseline_profile = call.current_profile
    /\ "type" \in DOMAIN call.baseline_profile.categorical
    /\ DOMAIN call.baseline_profile.categorical["type"] = {"A", "B"}
    /\ call.baseline_profile.null_ratios["type"] = Rat(1, 8)

PsiReturned == call.fn = "calculate_psi" /\ ret.done

TypeShiftReturned ==
    /\ DistributionReturned
    /\ call.baseline_profile = TypeProfile(BaselineTypeShare)
    /\ call.current_profile = TypeProfile(ShiftedTypeShare)
    /\ call.detector = DistributionDriftDetector(<<>>)

TypeShiftPsi == calculate_psi(BaselineTypeShare, ShiftedTypeShare)

PsiFindings(field) ==
    {i \in 1..Len(ret.value) :
        ret.value[i].metric_name = "psi" /\ ret.value[i].field_name = field}

\* C15 as stated: for the proportions {A:0.45, B:0.20, C:0.15, D:0.10,
\* E:0.10} against {A:0.65, B:0.15, C:0.10, D:0.05, E:0.05} the PSI of
\* 'type' exceeds the default warning threshold 0.25 and the detector emits
\* a WARNING or CRITICAL finding for 'type'.
C15_TypeShiftAboveWarningThreshold ==
    TypeShiftReturned =>
        /\ RLt(Rat(1, 4), TypeShiftPsi)
        /\ \E i \in PsiFindings("type") : ret.value[i].severity \in {"WARNING", "CRITICAL"}

\* C15, amended: for these proportions the PSI of 'type' is 0.1775, above
\* the default info threshold 0.1 and below the default warning threshold
\* 0.25, and the detector emits exactly one finding, a WARNING psi finding
\* for 'type' with drift_score PSI / 0.5.
C15_TypeShiftBetweenThresholds ==
    TypeShiftReturned =>
        /\ TypeShiftPsi.n \in 177515..177519 /\ TypeShiftPsi.d = 1000000
        /\ RLt(Rat(1, 10), TypeShiftPsi)
        /\ RLt(TypeShiftPsi, Rat(1, 4))
        /\ Len(ret.value) = 1
        /\ PsiFindings("type") = {1}
        /\ ret.value[1].severity = "WARNING"
        /\ ret.value[1].entity = "categorical"
        /\ ret.value[1].drift_score = RDiv(TypeShiftPsi, Rat(1, 2))

\* the detector returned from the comparison of the two batches
C15_Witness ==
    /\ TypeShiftReturned
    /\ PsiFindings("type") # {}
    /\ DOMAIN call.current_profile.categorical["type"] = {"A", "B", "C", "D", "E"}

-----------------------------------------------------------------------------
(* drift_engine/engine/drift_runner.py: _define_windows *)

\* a bug _define_windows could have: the baseline ends gap_hours before the
\* END of the current window
define_windows_from_end(windowing, now) ==
    LET baseline_days == windowing.baseline.days
        current_hours == windowing.current.hours
        gap_hours == DictGet(windowing, "gap_hours", 0)
        current_end == now
        current_start == current_end - current_hours
        baseline_end == current_end - gap_hours
        baseline_start == baseline_end - 24 * baseline_days
    IN  [baseline |-> TimeWindow(baseline_start, baseline_end),
         current |-> TimeWindow(current_start, current_end)]

\* DriftRunner._define_windows on config["windowing"]; timedelta(days=n) is
\* 24 n hours
define_windows(windowing, now) ==
    LET baseline_days == windowing.baseline.days
        current_hours == windowing.current.hours
        gap_hours == DictGet(windowing, "gap_hours", 0)
        current_end == now
        current_start == current_end - current_hours
        baseline_end == current_start - gap_hours
        baseline_start == baseline_end - 24 * baseline_days
    IN  [baseline |-> TimeWindow(baseline_start, baseline_end),
         current |-> TimeWindow(current_start, current_end)]

\* config["windowing"] sections: gap_hours is optional and, like the other
\* two, any number the YAML file gives (nothing validates its sign)
Windowings ==
    LET required == {[baseline |-> [days |-> d], current |-> [hours |-> h]] :
                        d \in 0..MaxDays, h \in 0..MaxHours}
    IN  required
        \cup {w @@ [gap_hours |-> g] : w \in required, g \in (-MaxGap)..MaxGap}

ReferenceTimes == {0, 100, 1000}

InitWindows ==
    /\ RunnerIdle
    /\ summary = NoSummary
    /\ ret = NoRet
    /\ \E w \in Windowings, now \in ReferenceTimes :
          call = [fn |-> "define_windows", windowing |-> w, reference_time |-> now]

ApplyDefineWindows ==
    /\ call.fn = "define_windows"
    /\ ~ret.done
    /\ ret' = [done |-> TRUE,
               value |-> define_windows(call.windowing, call.reference_time)]
    /\ UNCHANGED <<runner_vars, summary, call>>

NextWindows == ApplyDefineWindows

SpecWindows == InitWindows /\ [][NextWindows]_vars

WindowsDefined == call.fn = "define_windows" /\ ret.done

\* C10 as stated: for every reference time and configuration the baseline
\* window ends no later than the current window starts.
C10_BaselineEndsBeforeCurrent ==
    WindowsDefined => ret.value.baseline.end <= ret.value.current.start

\* C10 amended: current = [now - current_hours, now) and baseline =
\* [current_start - gap_hours - baseline_days, current_start - gap_hours) for
\* every reference time and configuration; baseline.end <= current.start
\* whenever gap_hours is absent or not negative, and only then.
C10_WindowsAsDefined ==
    WindowsDefined =>
        LET now == call.reference_time
            gap == IF "gap_hours" \in DOMAIN call.windowing
                   THEN call.windowing.gap_hours ELSE 0
            cur == ret.value.current
            base == ret.value.baseline
        IN  /\ cur.end = now
            /\ cur.start = now - call.windowing.current.hours
            /\ base.end = cur.start - gap
            /\ base.start = cur.start - gap - 24 * call.windowing.baseline.days
            /\ (gap >= 0) <=> (base.end <= cur.start)

C10_Witness ==
    /\ WindowsDefined
    /\ call.windowing.current.hours = 3
    /\ call.windowing.baseline.days = 1
    /\ "gap_hours" \in DOMAIN call.windowing
    /\ call.windowing.gap_hours = 2
    /\ ret.value.baseline.end < ret.value.current.start

-----------------------------------------------------------------------------
(* A free-standing DriftSummary that receives arbitrary results, as in     *)
(* test_installation.py                                                    *)

SampleResults ==
    {DriftResult(t, "test", "test_field", TimeWindow(0, 24), TimeWindow(0, 24),
                 "test_metric", Rat(1, 2), sev) :
        t \in DriftType, sev \in Severity}

InitSummary ==
    /\ RunnerIdle
    /\ PureIdle
    /\ \E checks \in {0, 10} :
          summary = [made |-> TRUE]
                    @@ DriftSummary(0, TimeWindow(0, 24), TimeWindow(0, 24), checks, 0)

AddResult ==
    /\ summary.made
    /\ Len(summary.results) < MaxResults
    /\ \E r \in SampleResults : summary' = add_result(summary, r)
    /\ UNCHANGED <<runner_vars, call, ret>>

NextSummary == AddResult

SpecSummary == InitSummary /\ [][NextSummary]_vars

\* number of results of a summary with the given severity
CountSeverity(s, sev) ==
    Cardinality({i \in 1..Len(s.results) : s.results[i].severity = sev})

\* C1: after every add_result on a summary created with total_drifts = 0 and
\* no results, total_drifts = len(results), the three severity counters equal
\* the number of results of each severity, and drifts_by_type[t] equals the
\* number of results of drift type t (a type with no result has no entry).
C1_TalliesMatchRecount ==
    summary.made =>
        /\ summary.total_drifts = Len(summary.results)
        /\ summary.critical_count = CountSeverity(summary, "CRITICAL")
        /\ summary.warning_count = CountSeverity(summary, "WARNING")
        /\ summary.info_count = CountSeverity(summary, "INFO")
        /\ \A t \in DriftType :
              LET count == Cardinality({i \in 1..Len(summary.results) :
                                           summary.results[i].drift_type = t})
              IN  /\ DictGet(summary.drifts_by_type, t, 0) = count
                  /\ (t \in DOMAIN summary.drifts_by_type) <=> (count > 0)

C1_Witness ==
    /\ summary.made
    /\ Len(summary.results) = 3
    /\ summary.info_count = 1
    /\ summary.critical_count = 2
    /\ DictGet(summary.drifts_by_type, "volume", 0) = 2

-----------------------------------------------------------------------------
(* drift_engine/engine/drift_runner.py: DriftRunner *)

\* the largest number of records a fetch returns
MaxRecords == 2

\* a configuration with every section the runner reads; a loaded
\* configuration is a dict whose keys are its sections
DefaultConfig ==
    [windowing |-> [baseline |-> [days |-> 1], current |-> [hours |-> 24]],
     thresholds |-> [schema |-> <<>>, distribution |-> <<>>, volume |-> <<>>],
     targets |->
        [schema_drift |-> [enabled |-> TRUE],
         distribution_drift |->
            [enabled |-> TRUE,
             categorical_fields |-> << <<"type">>, <<"actor", "login">> >>,
             numerical_fields |-> << <<"size">> >>],
         volume_drift |-> [enabled |-> TRUE, top_n_entities |-> 10]],
     profiling |-> [min_sample_size |-> 1, max_cardinality_track |-> 1000,
                    categorical_max_categories |-> 100],
     database |-> [batch_insert_size |-> 100]]

Sections == {"windowing", "thresholds", "targets", "profiling", "database"}

\* the configuration without one of its sections
Without(cfg, section) == [s \in (DOMAIN cfg) \ {section} |-> cfg[s]]

\* the configuration with the three detectors switched as given
WithEnabled(cfg, schema, distribution, volume) ==
    [cfg EXCEPT !.targets.schema_drift.enabled = schema,
                !.targets.distribution_drift.enabled = distribution,
                !.targets.volume_drift.enabled = volume]

\* the configurations a YAML file may hold: complete ones with any choice of
\* enabled detectors and of min_sample_size, and ones lacking a section
Configs ==
    {WithEnabled(DefaultConfig, a, b, c) : a, b, c \in BOOLEAN}
    \cup {[DefaultConfig EXCEPT !.profiling.min_sample_size = 2]}
    \cup {Without(DefaultConfig, s) : s \in Sections}

\* the reference times run() is given
RunTimes == {100}

\* event_data documents of github_events_processed
Events ==
    {JDict([type |-> StrLeaf("A"), size |-> IntLeaf("1", 1)]),
     JDict([type |-> StrLeaf("B"), size |-> IntLeaf("3", 3)]),
     JDict([type |-> JNull, size |-> StrLeaf("x"),
            actor |-> JDict([login |-> StrLeaf("u")])])}

\* what cursor.fetchall() may yield for a window
Batches == UNION {[1..n -> Events] : n \in 0..MaxRecords}

DetectorSteps == {"schema_detector", "distribution_detector", "volume_detector"}

\* the pipeline of run() in the order of its source lines
StepOrder ==
    <<"fetch_baseline", "fetch_current", "build_profiles", "schema_detector",
      "distribution_detector", "volume_detector", "persist", "return">>

the_enabled(target) == config["targets"][target]["enabled"]

\* lines 130-137: the six profiles of step 3
build_profiles ==
    LET profiling == config["profiling"]
        distribution == config["targets"]["distribution_drift"]
        top_n == config["targets"]["volume_drift"]["top_n_entities"]
        Schema(data) == SchemaFromRecords(data, profiling["max_cardinality_track"])
        Stat(data) ==
            StatisticalFromRecords(data, distribution["categorical_fields"],
                                   distribution["numerical_fields"],
                                   profiling["categorical_max_categories"])
        Volume(data) == VolumeFromRecords(data, distribution["categorical_fields"], top_n)
    IN  [built |-> TRUE,
         baseline_schema |-> Schema(baseline_data),
         current_schema |-> Schema(current_data),
         baseline_stat |-> Stat(baseline_data),
         current_stat |-> Stat(current_data),
         baseline_volume |-> Volume(baseline_data),
         current_volume |-> Volume(current_data)]

\* lines 142-148 and the early returns: a summary without checks or findings
empty_summary == DriftSummary(reference_time, baseline_window, current_window, 0, 0)

Checked(s, n) == [s EXCEPT !.total_checks = @ + n]

\* lines 151-161
schema_drifts ==
    SchemaDetect(SchemaDriftDetector(config["thresholds"]["schema"]),
                 profiles.baseline_schema, profiles.current_schema,
                 baseline_window, current_window)

run_schema(s) ==
    IF the_enabled("schema_drift")
    THEN Checked(add_results(s, schema_drifts),
                 Cardinality(DOMAIN profiles.baseline_schema.fields)
                 + Cardinality(DOMAIN profiles.current_schema.fields))
    ELSE s

\* lines 164-176
distribution_drifts ==
    DistributionDetect(DistributionDriftDetector(config["thresholds"]["distribution"]),
                       profiles.baseline_stat, profiles.current_stat,
                       baseline_window, current_window)

run_distribution(s) ==
    IF the_enabled("distribution_drift")
    THEN Checked(add_results(s, distribution_drifts),
                 Cardinality(DOMAIN profiles.baseline_stat.categorical)
                 + Cardinality(DOMAIN profiles.baseline_stat.numerical))
    ELSE s

\* lines 179-188
volume_drifts ==
    VolumeDetect(VolumeDriftDetector(config["thresholds"]["volume"]),
                 profiles.baseline_volume, profiles.current_volume,
                 baseline_window, current_window)

\* a bug lines 179-188 could have: the checks of the volume step counted
\* outside the test of its flag
run_volume_counting_always(s) ==
    Checked(IF the_enabled("volume_drift") THEN add_results(s, volume_drifts) ELSE s,
            1 + Cardinality(DOMAIN profiles.baseline_volume.per_entity))

run_volume(s) ==
    IF the_enabled("volume_drift")
    THEN Checked(add_results(s, volume_drifts),
                 1 + Cardinality(DOMAIN profiles.baseline_volume.per_entity))
    ELSE s

\* the summary of lines 142-188 as a function of the run's inputs
detection == run_volume(run_distribution(run_schema(empty_summary)))

Returned(s) == [made |-> TRUE, value |-> s]

Raise(exception) ==
    /\ raised' = exception
    /\ pc' = "raised"

Init ==
    /\ pc = "new"
    /\ config \in Configs
    /\ reference_time = 0
    /\ baseline_window = NoWindow
    /\ current_window = NoWindow
    /\ baseline_data = <<>>
    /\ current_data = <<>>
    /\ profiles = NoProfiles
    /\ summary = NoSummary
    /\ returned = NoSummary
    /\ raised = "none"
    /\ steps = <<>>
    /\ fetch_attempts = [baseline |-> 0, current |-> 0]
    /\ store = <<>>
    /\ persist_calls = <<>>
    /\ writer = "unused"
    /\ runs = 0
    /\ service = NoService
    /\ validation_engine = NoEngine
    /\ PureIdle

\* DriftRunner.__init__ (lines 62-70): the detectors read
\* config["thresholds"], min_sample_size reads config["profiling"]
Construct ==
    /\ pc = "new"
    /\ IF {"thresholds", "profiling"} \subseteq DOMAIN config
       THEN pc' = "ready" /\ UNCHANGED raised
       ELSE Raise("KeyError")
    /\ UNCHANGED <<config, reference_time, baseline_window, current_window,
                   baseline_data, current_data, profiles, summary, returned,
                   steps, fetch_attempts, store, persist_calls, writer,
                   runs, service,
                   validation_engine, call, ret>>

\* run(reference_time), lines 82-91: step 1, the windows
DefineWindows ==
    /\ pc = "ready"
    /\ runs' = runs + 1
    /\ \E now \in RunTimes :
          /\ reference_time' = now
          /\ IF "windowing" \in DOMAIN config
             THEN LET windows == define_windows(config["windowing"], now)
                  IN  /\ baseline_window' = windows.baseline
                      /\ current_window' = windows.current
                      /\ pc' = "fetch_baseline"
                      /\ UNCHANGED raised
             ELSE Raise("KeyError") /\ UNCHANGED <<baseline_window, current_window>>
    /\ UNCHANGED <<config, baseline_data, current_data, profiles, summary,
                   returned, steps, fetch_attempts, store, persist_calls, writer,
                   service,
                   validation_engine, call, ret>>

\* a bug _fetch_data could have: a second attempt after a failed one
FetchBaselineRetry ==
    /\ pc = "fetch_baseline"
    /\ fetch_attempts' = [fetch_attempts EXCEPT !.baseline = @ + 1]
    /\ \/ \E records \in Batches :
             /\ baseline_data' = records
             /\ steps' = Append(steps, "fetch_baseline")
             /\ pc' = "fetch_current"
             /\ UNCHANGED raised
       \/ /\ IF fetch_attempts.baseline = 0
             THEN UNCHANGED <<pc, raised>>
             ELSE Raise("OperationalError")
          /\ UNCHANGED <<baseline_data, steps>>
    /\ UNCHANGED <<config, reference_time, baseline_window, current_window,
                   current_data, profiles, summary, returned, store,
                   persist_calls, writer, runs, service,
                   validation_engine, call, ret>>

\* line 94, _fetch_data(baseline_window): the rows of the window, or the
\* exception of the connection or the query, logged and raised again
FetchBaseline ==
    /\ pc = "fetch_baseline"
    /\ fetch_attempts' = [fetch_attempts EXCEPT !.baseline = @ + 1]
    /\ \/ \E records \in Batches :
             /\ baseline_data' = records
             /\ steps' = Append(steps, "fetch_baseline")
             /\ pc' = "fetch_current"
             /\ UNCHANGED raised
       \/ /\ Raise("OperationalError")
          /\ UNCHANGED <<baseline_data, steps>>
    /\ UNCHANGED <<config, reference_time, baseline_window, current_window,
                   current_data, profiles, summary, returned, store,
                   persist_calls, writer, runs, service,
                   validation_engine, call, ret>>

\* line 95, _fetch_data(current_window)
FetchCurrent ==
    /\ pc = "fetch_current"
    /\ fetch_attempts' = [fetch_attempts EXCEPT !.current = @ + 1]
    /\ \/ \E records \in Batches :
             /\ current_data' = records
             /\ steps' = Append(steps, "fetch_current")
             /\ pc' = "check_sample"
             /\ UNCHANGED raised
       \/ /\ Raise("OperationalError")
          /\ UNCHANGED <<current_data, steps>>
    /\ UNCHANGED <<config, reference_time, baseline_window, current_window,
                   baseline_data, profiles, summary, returned, store,
                   persist_calls, writer, runs, service,
                   validation_engine, call, ret>>

BelowMinimum(data) == Len(data) < config["profiling"]["min_sample_size"]

\* a bug the check could have: only the baseline sample is measured
CheckSampleSizeBaselineOnly ==
    /\ pc = "check_sample"
    /\ IF BelowMinimum(baseline_data)
       THEN /\ returned' = Returned(empty_summary)
            /\ steps' = Append(steps, "return")
            /\ pc' = "done"
       ELSE /\ pc' = "build_profiles"
            /\ UNCHANGED <<returned, steps>>
    /\ UNCHANGED <<config, reference_time, baseline_window, current_window,
                   baseline_data, current_data, profiles, summary, raised,
                   fetch_attempts, store, persist_calls, writer,
                   runs, service,
                   validation_engine, call, ret>>

\* lines 101-125: the early return on a sample below min_sample_size
CheckSampleSize ==
    /\ pc = "check_sample"
    /\ IF BelowMinimum(baseline_data) \/ BelowMinimum(current_data)
       THEN /\ returned' = Returned(empty_summary)
            /\ steps' = Append(steps, "return")
            /\ pc' = "done"
       ELSE /\ pc' = "build_profiles"
            /\ UNCHANGED <<returned, steps>>
    /\ UNCHANGED <<config, reference_time, baseline_window, current_window,
                   baseline_data, current_data, profiles, summary, raised,
                   fetch_attempts, store, persist_calls, writer,
                   runs, service,
                   validation_engine, call, ret>>

\* a bug step 3 could have: the configured list of numerical fields extended
\* in place with the categorical ones, so that the next run profiles other
\* fields
BuildProfilesExtendingFields ==
    /\ pc = "build_profiles"
    /\ IF "targets" \in DOMAIN config
       THEN /\ profiles' = build_profiles
            /\ summary' = empty_summary
            /\ steps' = Append(steps, "build_profiles")
            /\ pc' = "schema"
            /\ config' =
                  [config EXCEPT !.targets.distribution_drift.numerical_fields =
                      @ \o config["targets"]["distribution_drift"]["categorical_fields"]]
            /\ UNCHANGED raised
       ELSE Raise("KeyError") /\ UNCHANGED <<profiles, summary, steps, config>>
    /\ UNCHANGED <<reference_time, baseline_window, current_window,
                   baseline_data, current_data, returned, fetch_attempts, store,
                   persist_calls, writer, runs, service,
                   validation_engine, call, ret>>

\* lines 130-148: step 3 and the fresh summary; _build_statistical_profile
\* is the first to read config["targets"] (line 270)
BuildProfiles ==
    /\ pc = "build_profiles"
    /\ IF "targets" \in DOMAIN config
       THEN /\ profiles' = build_profiles
            /\ summary' = empty_summary
            /\ steps' = Append(steps, "build_profiles")
            /\ pc' = "schema"
            /\ UNCHANGED raised
       ELSE Raise("KeyError") /\ UNCHANGED <<profiles, summary, steps>>
    /\ UNCHANGED <<config, reference_time, baseline_window, current_window,
                   baseline_data, current_data, returned, fetch_attempts, store,
                   persist_calls, writer, runs, service,
                   validation_engine, call, ret>>

Ran(step, target) == IF the_enabled(target) THEN Append(steps, step) ELSE steps

\* lines 151-161
DetectSchema ==
    /\ pc = "schema"
    /\ summary' = run_schema(summary)
    /\ steps' = Ran("schema_detector", "schema_drift")
    /\ pc' = "distribution"
    /\ UNCHANGED <<config, reference_time, baseline_window, current_window,
                   baseline_data, current_data, profiles, returned, raised,
                   fetch_attempts, store, persist_calls, writer,
                   runs, service,
                   validation_engine, call, ret>>

\* lines 164-176
DetectDistribution ==
    /\ pc = "distribution"
    /\ summary' = run_distribution(summary)
    /\ steps' = Ran("distribution_detector", "distribution_drift")
    /\ pc' = "volume"
    /\ UNCHANGED <<config, reference_time, baseline_window, current_window,
                   baseline_data, current_data, profiles, returned, raised,
                   fetch_attempts, store, persist_calls, writer,
                   runs, service,
                   validation_engine, call, ret>>

\* a bug the volume step could have: its findings put in front of the list
DetectVolumePrepending ==
    /\ pc = "volume"
    /\ LET s == run_volume(summary)
           found == SubSeq(s.results, Len(summary.results) + 1, Len(s.results))
       IN  summary' = [s EXCEPT !.results = found \o summary.results]
    /\ steps' = Ran("volume_detector", "volume_drift")
    /\ pc' = "persist"
    /\ UNCHANGED <<config, reference_time, baseline_window, current_window,
                   baseline_data, current_data, profiles, returned, raised,
                   fetch_attempts, store, persist_calls, writer,
                   runs, service,
                   validation_engine, call, ret>>

\* lines 179-188
DetectVolume ==
    /\ pc = "volume"
    /\ summary' = run_volume(summary)
    /\ steps' = Ran("volume_detector", "volume_drift")
    /\ pc' = "persist"
    /\ UNCHANGED <<config, reference_time, baseline_window, current_window,
                   baseline_data, current_data, profiles, returned, raised,
                   fetch_attempts, store, persist_calls, writer,
                   runs, service,
                   validation_engine, call, ret>>

\* a bug _persist_results could have: the writer's exception raised again
write_results_raising(results) ==
    \/ /\ writer' = "connect_failed"
       /\ Raise("OperationalError")
       /\ UNCHANGED <<persist_calls, store>>
    \/ /\ writer' = "rolled_back"
       /\ persist_calls' = Append(persist_calls, results)
       /\ Raise("OperationalError")
       /\ UNCHANGED store
    \/ /\ writer' = "committed"
       /\ persist_calls' = Append(persist_calls, results)
       /\ store' = store \o results
       /\ pc' = "return"
       /\ UNCHANGED raised

\* _persist_results(results) once config["database"] is read: the writer
\* fails to connect, or write_results rolls back and raises, or it commits
\* every row; the except clause of line 301 swallows either failure
write_results(results) ==
    /\ \/ /\ writer' = "connect_failed"
          /\ UNCHANGED <<persist_calls, store>>
       \/ /\ writer' = "rolled_back"
          /\ persist_calls' = Append(persist_calls, results)
          /\ UNCHANGED store
       \/ /\ writer' = "committed"
          /\ persist_calls' = Append(persist_calls, results)
          /\ store' = store \o results
    /\ pc' = "return"
    /\ UNCHANGED raised

\* a bug step 5 could have: the writer is called whatever was found
PersistAlways ==
    /\ pc = "persist"
    /\ steps' = Append(steps, "persist")
    /\ IF "database" \in DOMAIN config
       THEN write_results(summary.results)
       ELSE Raise("KeyError") /\ UNCHANGED <<store, persist_calls, writer>>
    /\ UNCHANGED <<config, reference_time, baseline_window, current_window,
                   baseline_data, current_data, profiles, summary, returned,
                   fetch_attempts, runs, service,
                   validation_engine, call, ret>>

\* lines 194-195 and _persist_results (293-303); config["database"] is read
\* at line 295, outside the try
Persist ==
    /\ pc = "persist"
    /\ IF summary.total_drifts > 0
       THEN /\ steps' = Append(steps, "persist")
            /\ IF "database" \in DOMAIN config
               THEN write_results(summary.results)
               ELSE Raise("KeyError") /\ UNCHANGED <<store, persist_calls, writer>>
       ELSE /\ pc' = "return"
            /\ UNCHANGED <<steps, raised, store, persist_calls, writer>>
    /\ UNCHANGED <<config, reference_time, baseline_window, current_window,
                   baseline_data, current_data, profiles, summary, returned,
                   fetch_attempts, runs, service,
                   validation_engine, call, ret>>

\* line 197
Return ==
    /\ pc = "return"
    /\ returned' = Returned(summary)
    /\ steps' = Append(steps, "return")
    /\ pc' = "done"
    /\ UNCHANGED <<config, reference_time, baseline_window, current_window,
                   baseline_data, current_data, profiles, summary, raised,
                   fetch_attempts, store, persist_calls, writer,
                   runs, service,
                   validation_engine, call, ret>>

Next ==
    \/ Construct
    \/ DefineWindows
    \/ FetchBaseline
    \/ FetchCurrent
    \/ CheckSampleSize
    \/ BuildProfiles
    \/ DetectSchema
    \/ DetectDistribution
    \/ DetectVolume
    \/ Persist
    \/ Return

Spec == Init /\ [][Next]_vars

-----------------------------------------------------------------------------
(* Properties of DriftRunner *)

Performed == SeqRange(steps)

Times(step) == Cardinality({i \in DOMAIN steps : steps[i] = step})

NothingStored ==
    /\ store = <<>>
    /\ persist_calls = <<>>
    /\ writer = "unused"
    /\ "persist" \notin Performed

\* both windows were fetched and one of the samples is too small
SampleTooSmall ==
    /\ "fetch_current" \in Performed
    /\ BelowMinimum(baseline_data) \/ BelowMinimum(current_data)

\* C2: when the baseline or the current sample is below min_sample_size the
\* run returns, without raising, a summary with total_checks = 0,
\* total_drifts = 0 and no results; it builds no profile, runs no detector
\* and does not invoke persistence.
C2_SmallSampleReturnsEmpty ==
    SampleTooSmall =>
        /\ raised = "none"
        /\ pc \in {"check_sample", "done"}
        /\ profiles = NoProfiles
        /\ Performed \cap (DetectorSteps \cup {"build_profiles"}) = {}
        /\ NothingStored
        /\ pc = "done" =>
              /\ returned.made
              /\ returned.value.total_checks = 0
              /\ returned.value.total_drifts = 0
              /\ returned.value.results = <<>>
              /\ returned.value = empty_summary

\* the run returned early although its baseline sample alone was large enough
C2_Witness ==
    /\ pc = "done"
    /\ SampleTooSmall
    /\ ~BelowMinimum(baseline_data)
    /\ baseline_data # <<>>
    /\ returned.made

Rank(step) == CHOOSE i \in DOMAIN StepOrder : StepOrder[i] = step

TypeRank(type) == CHOOSE i \in 1..3 : <<"schema", "distribution", "volume">>[i] = type

\* the steps a completed run performs, given what detection found
StepsOfRun ==
    LET Due(step) ==
            CASE step = "schema_detector" -> the_enabled("schema_drift")
              [] step = "distribution_detector" -> the_enabled("distribution_drift")
              [] step = "volume_detector" -> the_enabled("volume_drift")
              [] step = "persist" -> detection.total_drifts > 0
              [] OTHER -> TRUE
    IN  SelectSeq(StepOrder, Due)

\* C4: a run that reaches detection performs its steps in the order fetch
\* baseline, fetch current, build profiles, schema detector, distribution
\* detector, volume detector, persistence, return (a disabled detector, and
\* persistence when nothing was found, being left out), and the results of
\* its summary list schema findings before distribution findings before
\* volume findings.
C4_StepsInOrder ==
    /\ \A i, j \in DOMAIN steps : i < j => Rank(steps[i]) < Rank(steps[j])
    /\ "build_profiles" \in Performed =>
          /\ SubSeq(steps, 1, 3) = SubSeq(StepOrder, 1, 3)
          /\ \A i, j \in DOMAIN summary.results :
                i < j => TypeRank(summary.results[i].drift_type)
                           <= TypeRank(summary.results[j].drift_type)
          /\ pc = "done" =>
                /\ steps = StepsOfRun
                /\ returned.value.results =
                      (IF the_enabled("schema_drift") THEN schema_drifts ELSE <<>>)
                      \o (IF the_enabled("distribution_drift")
                          THEN distribution_drifts ELSE <<>>)
                      \o (IF the_enabled("volume_drift") THEN volume_drifts ELSE <<>>)

\* a completed run whose three detectors each found something
C4_Witness ==
    /\ pc = "done"
    /\ steps = StepOrder
    /\ {returned.value.results[i].drift_type : i \in DOMAIN returned.value.results}
          = DriftType

\* the detector steps config["targets"] enables
EnabledSteps ==
    (IF the_enabled("schema_drift") THEN {"schema_detector"} ELSE {})
    \cup (IF the_enabled("distribution_drift") THEN {"distribution_detector"} ELSE {})
    \cup (IF the_enabled("volume_drift") THEN {"volume_detector"} ELSE {})

\* C5: persistence is invoked at most once in a run, only after every
\* enabled detector has returned, and with the complete list of the run's
\* findings; a run that raised earlier, or found nothing, hands nothing to
\* the store.
C5_PersistOnceAfterDetection ==
    /\ Times("persist") <= 1
    /\ Len(persist_calls) <= 1
    /\ "persist" \in Performed =>
          /\ pc \in {"return", "done", "raised"}
          /\ EnabledSteps \subseteq Performed
          /\ summary = detection
          /\ summary.total_drifts > 0
          /\ \A i \in DOMAIN persist_calls : persist_calls[i] = summary.results
          /\ store \in {<<>>, summary.results}
          /\ store # <<>> <=> writer = "committed"
    /\ "persist" \notin Performed => NothingStored
    /\ (summary # NoSummary /\ pc \in {"return", "done"} /\ summary.total_drifts = 0)
          => NothingStored

\* a completed run that committed several findings
C5_Witness ==
    /\ pc = "done"
    /\ writer = "committed"
    /\ Len(store) >= 2
    /\ persist_calls = <<store>>

\* C6: when the writer fails (to connect, or in write_results) run() does
\* not raise, and it returns the summary detection produced, the one a run
\* with a committing writer returns.
C6_PersistFailureSwallowed ==
    /\ writer \in {"connect_failed", "rolled_back"} =>
          /\ raised = "none"
          /\ pc \in {"return", "done"}
          /\ store = <<>>
    /\ (writer # "unused" /\ pc = "done") => returned = Returned(detection)

\* a completed run whose write_results rolled back
C6_Witness ==
    /\ pc = "done"
    /\ writer = "rolled_back"
    /\ returned.made
    /\ returned.value.total_drifts > 0
    /\ store = <<>>

\* C7: a fetch that raises ends the run with that exception after a single
\* attempt; the run returns no summary, runs no detector and persists
\* nothing.
C7_FetchErrorPropagates ==
    /\ fetch_attempts.baseline <= 1 /\ fetch_attempts.current <= 1
    /\ raised = "OperationalError" =>
          /\ pc = "raised"
          /\ returned = NoSummary
          /\ summary = NoSummary
          /\ profiles = NoProfiles
          /\ Performed \subseteq {"fetch_baseline"}
          /\ NothingStored
          /\ fetch_attempts.baseline = 1
          /\ fetch_attempts.current = (IF "fetch_baseline" \in Performed THEN 1 ELSE 0)

\* the fetch of the current window raised after the baseline was fetched
C7_Witness ==
    /\ raised = "OperationalError"
    /\ steps = <<"fetch_baseline">>
    /\ fetch_attempts = [baseline |-> 1, current |-> 1]

\* C8 as stated: a missing configuration section is raised before any data
\* is fetched, any detector runs or any summary is computed.
C8_ConfigErrorBeforeAnyRun ==
    raised = "KeyError" =>
        /\ fetch_attempts = [baseline |-> 0, current |-> 0]
        /\ steps = <<>>
        /\ profiles = NoProfiles
        /\ summary = NoSummary

\* C16 as stated: a run that completed detection returns a summary with
\* total_checks >= total_drifts.
C16_ChecksBoundDrifts ==
    (pc = "done" /\ "build_profiles" \in Performed) =>
        returned.value.total_checks >= returned.value.total_drifts

-----------------------------------------------------------------------------
(* Several runs on one DriftRunner *)

\* the largest number of run() calls on one runner
MaxRuns == 2

\* configurations of a runner that is run repeatedly
RunConfigs == {DefaultConfig, Without(DefaultConfig, "database")}

InitRuns ==
    /\ Init
    /\ config \in RunConfigs

\* run() called again after it returned or raised: the locals of the call
\* that ended are gone (the runner holds no reference to the summary it
\* returned), and the new call starts at line 82 on the same runner
RunAgain ==
    /\ pc \in {"done", "raised"}
    /\ runs \in 1..(MaxRuns - 1)
    /\ pc' = "ready"
    /\ reference_time' = 0
    /\ baseline_window' = NoWindow
    /\ current_window' = NoWindow
    /\ baseline_data' = <<>>
    /\ current_data' = <<>>
    /\ profiles' = NoProfiles
    /\ summary' = NoSummary
    /\ returned' = NoSummary
    /\ raised' = "none"
    /\ steps' = <<>>
    /\ fetch_attempts' = [baseline |-> 0, current |-> 0]
    /\ store' = <<>>
    /\ persist_calls' = <<>>
    /\ writer' = "unused"
    /\ UNCHANGED <<config, runs, service,
                   validation_engine, call, ret>>

NextRuns ==
    \/ Next
    \/ RunAgain

SpecRuns == InitRuns /\ [][NextRuns]_vars

\* what a run holds is computed from the configuration, the reference time
\* and the fetched records
RunFromInputs ==
    /\ pc \in {"fetch_baseline", "fetch_current", "check_sample", "build_profiles",
               "schema", "distribution", "volume", "persist", "return", "done"} =>
          /\ baseline_window = define_windows(config["windowing"], reference_time).baseline
          /\ current_window = define_windows(config["windowing"], reference_time).current
    /\ profiles # NoProfiles => profiles = build_profiles
    /\ pc = "done" =>
          returned = Returned(IF "build_profiles" \in Performed
                              THEN detection ELSE empty_summary)

\* C17: every run on a runner returns a summary computed from the
\* configuration, the reference time and the records fetched in that run
\* alone, whatever the runs before it did, and no step of a run changes the
\* configuration (of which the detectors' thresholds are a part).
C17_RunsIndependent ==
    /\ [][config' = config]_vars
    /\ []RunFromInputs

\* a second run completed detection, with findings
C17_Witness ==
    /\ runs = 2
    /\ pc = "done"
    /\ "build_profiles" \in Performed
    /\ returned.value.total_drifts > 0

-----------------------------------------------------------------------------
(* drift_engine/drift_service.py *)

\* the service is followed for MaxClock ticks of its clock; one tick is one
\* sleep of the main loop (line 101)
MaxClock == 5

\* the largest interval of the job, in ticks
MaxInterval == 2

\* the engine-side variables, which the service model leaves alone
service_rest == <<pc, config, reference_time, baseline_window, current_window,
                  baseline_data, current_data, profiles, summary, returned,
                  raised, steps, fetch_attempts, store, persist_calls, writer,
                  runs, validation_engine, call, ret>>

InitService ==
    /\ RunnerAtRest
    /\ PureIdle
    /\ summary = NoSummary
    /\ service = [NoService EXCEPT !.pc = "main"]
    /\ validation_engine = NoEngine

\* lines 67-91: the runner that yields the schedule is constructed outside
\* any try, so a configuration error ends main; otherwise one job is
\* registered, first due one interval from now
ScheduleJob ==
    /\ service.pc = "main"
    /\ \/ service' = [service EXCEPT !.pc = "crashed"]
       \/ \E interval_hours \in 1..MaxInterval :
             service' = [service EXCEPT !.pc = "initial",
                                        !.interval = interval_hours,
                                        !.next_run = service.clock + interval_hours]
    /\ UNCHANGED service_rest

\* line 95, entering run_drift_detection (line 29) in the thread of main
StartInitialRun ==
    /\ service.pc = "initial"
    /\ service' = [service EXCEPT !.pc = "initial_run",
                                  !.in_flight = @ + 1,
                                  !.started = @ + 1]
    /\ UNCHANGED service_rest

\* a run that is in flight takes time; nothing else of the service moves
RunTakesTime ==
    /\ service.pc \in {"initial_run", "job_run"}
    /\ service.clock < MaxClock
    /\ service' = [service EXCEPT !.clock = @ + 1]
    /\ UNCHANGED service_rest

\* lines 37-62: the run returns, or DriftRunner() or run() raises and the
\* except clause logs it; either way run_drift_detection returns.  After a
\* job the schedule library sets its next run one interval from now.
FinishRun ==
    /\ service.pc \in {"initial_run", "job_run"}
    /\ \E outcome \in {"returned", "failed"} :
          service' = [service EXCEPT
                         !.pc = IF service.pc = "job_run" THEN "sleep" ELSE "loop",
                         !.in_flight = @ - 1,
                         !.last = outcome,
                         !.next_run = IF service.pc = "job_run"
                                      THEN service.clock + service.interval
                                      ELSE @]
    /\ UNCHANGED service_rest

\* a design the service could have had: run_pending hands the job to a
\* thread and returns at once
RunPendingInThread ==
    /\ service.pc = "loop"
    /\ IF service.clock >= service.next_run
       THEN service' = [service EXCEPT !.pc = "sleep",
                                       !.in_flight = @ + 1,
                                       !.started = @ + 1,
                                       !.next_run = service.clock + service.interval]
       ELSE service' = [service EXCEPT !.pc = "sleep"]
    /\ UNCHANGED service_rest

\* line 100: schedule.run_pending() calls the job, in this thread, if it is
\* due, and returns when the job has returned
RunPending ==
    /\ service.pc = "loop"
    /\ IF service.clock >= service.next_run
       THEN service' = [service EXCEPT !.pc = "job_run",
                                       !.in_flight = @ + 1,
                                       !.started = @ + 1]
       ELSE service' = [service EXCEPT !.pc = "sleep"]
    /\ UNCHANGED service_rest

\* line 101
Sleep ==
    /\ service.pc = "sleep"
    /\ service.clock < MaxClock
    /\ service' = [service EXCEPT !.pc = "loop", !.clock = @ + 1]
    /\ UNCHANGED service_rest

\* lines 105-109: Ctrl+C ends the process, and a run in flight with it
Interrupt ==
    /\ service.pc \in {"initial", "initial_run", "loop", "job_run", "sleep"}
    /\ service' = [service EXCEPT !.pc = "stopped", !.in_flight = 0]
    /\ UNCHANGED service_rest

NextService ==
    \/ ScheduleJob
    \/ StartInitialRun
    \/ RunTakesTime
    \/ FinishRun
    \/ RunPending
    \/ Sleep
    \/ Interrupt

SpecService == InitService /\ [][NextService]_vars

\* a run starts in this step
RunStarts == service'.started > service.started

\* C18: in the service at most one run is in flight at any time, and a run,
\* the initial one or a scheduled one, starts only when no run is in flight.
C18_RunsNeverOverlap ==
    /\ [](service.in_flight <= 1)
    /\ [][RunStarts => service.in_flight = 0]_vars

\* a scheduled run is still in flight a full interval after it became due,
\* so the job is due again while it runs
C18_Witness ==
    /\ service.pc = "job_run"
    /\ service.in_flight = 1
    /\ service.started >= 2
    /\ service.clock >= service.next_run + service.interval

-----------------------------------------------------------------------------
(* Properties of SchemaDriftDetector.detect: cardinality *)

SchemaReturned == call.fn = "schema_detect" /\ ret.done

\* the fields of the call that both profiles have
CommonFields ==
    (DOMAIN call.baseline_profile.fields) \cap (DOMAIN call.current_profile.fields)

\* the cardinality findings of a returned schema call about a field
CardinalityFindings(field) ==
    {i \in 1..Len(ret.value) :
        /\ ret.value[i].metric_name = "cardinality_explosion"
        /\ ret.value[i].field_name = field}

\* exactly one cardinality finding about the field, of this severity and score
OneCardinalityFinding(field, severity, score) ==
    /\ Cardinality(CardinalityFindings(field)) = 1
    /\ \A i \in CardinalityFindings(field) :
          /\ ret.value[i].severity = severity
          /\ REq(ret.value[i].drift_score, score)

-----------------------------------------------------------------------------
(* Properties of VolumeDriftDetector: severity of the global check *)

\* the two rates of the call, in events per hour
BaselineRateOfCall ==
    event_rate(call.baseline_profile, duration_hours(call.baseline_window))

CurrentRateOfCall ==
    event_rate(call.current_profile, duration_hours(call.current_window))

\* |z-score| and |percent change| of the call
AbsZOfCall == RAbs(global_z_score(BaselineRateOfCall, CurrentRateOfCall))

AbsPercentOfCall == RAbs(global_percent_change(BaselineRateOfCall, CurrentRateOfCall))

\* exactly one global finding, of this severity
OneGlobalFinding(severity) ==
    /\ Cardinality(GlobalFindings) = 1
    /\ \A i \in GlobalFindings : ret.value[i].severity = severity

\* C20: with both durations non-zero the global finding is CRITICAL if
\* |z-score| >= z_score.warning or |percent change| >= percent_change.warning;
\* otherwise WARNING if |z-score| >= z_score.info or |percent change| >=
\* percent_change.info; otherwise there is none.  One metric crossing is
\* enough, and a call never returns two global findings.
C20_EitherMetricGrades ==
    (VolumeReturned /\ ~ZeroDuration) =>
        LET det == call.detector
        IN  IF \/ RGe(AbsZOfCall, det.z_score_warning_threshold)
               \/ RGe(AbsPercentOfCall, det.percent_warning_threshold)
            THEN OneGlobalFinding("CRITICAL")
            ELSE IF \/ RGe(AbsZOfCall, det.z_score_info_threshold)
                    \/ RGe(AbsPercentOfCall, det.percent_info_threshold)
            THEN OneGlobalFinding("WARNING")
            ELSE GlobalFindings = {}

\* a CRITICAL global finding that the percent change alone brought about:
\* the z-score is below both of its thresholds
C20_Witness ==
    /\ VolumeReturned
    /\ ~ZeroDuration
    /\ RLt(AbsZOfCall, call.detector.z_score_info_threshold)
    /\ RGe(AbsPercentOfCall, call.detector.percent_warning_threshold)
    /\ OneGlobalFinding("CRITICAL")

-----------------------------------------------------------------------------
(* Properties of VolumeDriftDetector: the per-entity check *)

\* the per-entity findings of a returned volume call
EntityFindings ==
    {i \in 1..Len(ret.value) : ret.value[i].metric_name = "entity_count_change"}

\* those about one value of one dimension
EntityFindingsFor(entity_field, entity_value) ==
    {i \in EntityFindings : /\ ret.value[i].entity = entity_field
                            /\ ret.value[i].field_name = entity_value}

\* the dimensions both profiles of the call have
CommonDimensions ==
    (DOMAIN call.baseline_profile.per_entity) \cap (DOMAIN call.current_profile.per_entity)

\* the values of a common dimension that both top-N lists hold
CommonValues(entity_field) ==
    (DOMAIN call.baseline_profile.per_entity[entity_field])
    \cap (DOMAIN call.current_profile.per_entity[entity_field])

\* |current - baseline| / baseline >= threshold, for a positive baseline count
CountChangeReaches(baseline_count, current_count, threshold) ==
    LET diff == IF current_count >= baseline_count
                THEN current_count - baseline_count
                ELSE baseline_count - current_count
    IN  diff * threshold.d >= threshold.n * baseline_count

\* C21: every per-entity finding is about a value that both profiles hold in
\* a dimension both have, and is WARNING or INFO, never CRITICAL; a value in
\* both lists gets one WARNING finding when |percent change| >= the warning
\* threshold, else one INFO finding when it is >= the info threshold, else
\* none; a value on one side only gets none, and detect returns its list.
C21_PerEntityOnlyCommonValues ==
    VolumeReturned =>
        /\ \A i \in EntityFindings :
              /\ ret.value[i].entity \in CommonDimensions
              /\ ret.value[i].field_name \in CommonValues(ret.value[i].entity)
              /\ ret.value[i].severity \in {"WARNING", "INFO"}
        /\ \A entity_field \in CommonDimensions :
              \A entity_value \in CommonValues(entity_field) :
                  LET b == call.baseline_profile.per_entity[entity_field][entity_value]
                      c == call.current_profile.per_entity[entity_field][entity_value]
                      found == EntityFindingsFor(entity_field, entity_value)
                  IN  IF CountChangeReaches(b, c, call.detector.percent_warning_threshold)
                      THEN /\ Cardinality(found) = 1
                           /\ \A i \in found : ret.value[i].severity = "WARNING"
                      ELSE IF CountChangeReaches(b, c, call.detector.percent_info_threshold)
                      THEN /\ Cardinality(found) = 1
                           /\ \A i \in found : ret.value[i].severity = "INFO"
                      ELSE found = {}

\* "A" tripled in both lists and got its WARNING finding; "B" is in the
\* current list only and got none
C21_Witness ==
    /\ VolumeReturned
    /\ "type" \in CommonDimensions
    /\ DOMAIN call.baseline_profile.per_entity["type"] = {"A"}
    /\ DOMAIN call.current_profile.per_entity["type"] = {"A", "B"}
    /\ call.baseline_profile.per_entity["type"]["A"] = 1
    /\ call.current_profile.per_entity["type"]["A"] = 3
    /\ \E i \in EntityFindingsFor("type", "A") : ret.value[i].severity = "WARNING"
    /\ EntityFindingsFor("type", "B") = {}

\* what a finding says, without the two windows it was found between
WithoutWindows(findings) ==
    [i \in 1..Len(findings) |->
        [entity |-> findings[i].entity, field_name |-> findings[i].field_name,
         metric_name |-> findings[i].metric_name,
         severity |-> findings[i].severity,
         drift_score |-> findings[i].drift_score]]

IsEntityFinding(r) == r.metric_name = "entity_count_change"

\* a profile reduced to its per-entity counts
CountsOnly(profile) == [profile EXCEPT !.total_count = 0]

\* a detector reduced to its percent_change thresholds
PercentOnly(det) ==
    [det EXCEPT !.z_score_info_threshold = Zero,
                !.z_score_warning_threshold = Zero]

\* C30: the per-entity findings of detect are those the per-entity counts
\* and the percent_change thresholds give between any two windows, empty
\* windows included: neither window's duration, nor the totals, nor the
\* z-score thresholds change which findings there are, their severity or
\* their score.
C30_PerEntityIgnoresDurations ==
    VolumeReturned =>
        \A w \in VolumeWindowPairs :
            WithoutWindows(SelectSeq(ret.value, IsEntityFinding))
            = WithoutWindows(
                  DetectPerEntityVolumeDrift(PercentOnly(call.detector),
                                             CountsOnly(call.baseline_profile),
                                             CountsOnly(call.current_profile),
                                             w.baseline, w.current))

\* both windows are empty, so there is no global finding, and "A", 1 event
\* before and 3 after, still has its WARNING finding with score 1
C30_Witness ==
    /\ VolumeReturned
    /\ duration_hours(call.baseline_window) = 0
    /\ duration_hours(call.current_window) = 0
    /\ "type" \in CommonDimensions
    /\ "A" \in CommonValues("type")
    /\ call.baseline_profile.per_entity["type"]["A"] = 1
    /\ call.current_profile.per_entity["type"]["A"] = 3
    /\ Len(ret.value) > 0
    /\ \A i \in 1..Len(ret.value) : IsEntityFinding(ret.value[i])
    /\ \E i \in EntityFindingsFor("type", "A") :
          /\ ret.value[i].severity = "WARNING"
          /\ ret.value[i].drift_score = One

-----------------------------------------------------------------------------
(* Properties of DistributionDriftDetector: mean shift *)

\* the numerical fields both profiles of the call track
CommonNumerical ==
    (DOMAIN call.baseline_profile.numerical) \cap (DOMAIN call.current_profile.numerical)

MeanShiftFindings(field) ==
    {i \in 1..Len(ret.value) :
        ret.value[i].metric_name = "mean_shift" /\ ret.value[i].field_name = field}

\* |current mean - baseline mean| / baseline std >= k, which is false when
\* the baseline std is 0
MeanShiftReaches(field, k) ==
    LET baseline == call.baseline_profile.numerical[field]
        current == call.current_profile.numerical[field]
    IN  /\ baseline.std.n > 0
        /\ RGe(RAbs(RSub(current.mean, baseline.mean)),
               Rat(k * baseline.std.n, baseline.std.d))

OneMeanShiftFinding(field, severity) ==
    /\ Cardinality(MeanShiftFindings(field)) = 1
    /\ \A i \in MeanShiftFindings(field) : ret.value[i].severity = severity

\* C22: for each numerical field of both profiles, a mean shift (in baseline
\* standard deviations, 0 when the baseline std is 0) >= 3 gives a CRITICAL
\* mean_shift finding, >= 2 WARNING, >= 1 INFO, below 1 none; so a field with
\* baseline std 0 never gets one, and detect returns its list.
C22_MeanShiftGrades ==
    DistributionReturned =>
        /\ \A field \in CommonNumerical :
              /\ IF MeanShiftReaches(field, 3) THEN OneMeanShiftFinding(field, "CRITICAL")
                 ELSE IF MeanShiftReaches(field, 2) THEN OneMeanShiftFinding(field, "WARNING")
                 ELSE IF MeanShiftReaches(field, 1) THEN OneMeanShiftFinding(field, "INFO")
                 ELSE MeanShiftFindings(field) = {}
              /\ call.baseline_profile.numerical[field].std = Zero
                    => MeanShiftFindings(field) = {}
        /\ \A i \in 1..Len(ret.value) :
              ret.value[i].metric_name = "mean_shift"
                 => ret.value[i].field_name \in CommonNumerical

\* the mean of 'size' went from 0 to 10 over a baseline std of 0: no finding
C22_Witness ==
    /\ DistributionReturned
    /\ "size" \in CommonNumerical
    /\ call.baseline_profile.numerical["size"].std = Zero
    /\ call.baseline_profile.numerical["size"].mean = Zero
    /\ call.current_profile.numerical["size"].mean = Rat(10, 1)
    /\ MeanShiftFindings("size") = {}

-----------------------------------------------------------------------------
(* Properties of DistributionDriftDetector: PSI grading *)

\* the categorical fields both profiles of the call track
CommonCategorical ==
    (DOMAIN call.baseline_profile.categorical)
    \cap (DOMAIN call.current_profile.categorical)

\* the PSI of a common field of the call
PsiOfCall(field) ==
    calculate_psi(call.baseline_profile.categorical[field],
                  call.current_profile.categorical[field])

\* exactly one psi finding about the field, of this severity, its score
\* (like the PSI, in millionths) being this many millionths
OnePsiFinding(field, severity, millionths) ==
    /\ Cardinality(PsiFindings(field)) = 1
    /\ \A i \in PsiFindings(field) :
          /\ ret.value[i].severity = severity
          /\ 1000000 % ret.value[i].drift_score.d = 0
          /\ ret.value[i].drift_score.n * (1000000 \div ret.value[i].drift_score.d)
                = millionths

-----------------------------------------------------------------------------
(* Properties of SchemaDriftDetector.detect: type changes and new fields *)

\* the findings of a returned schema call about a field under one metric
SchemaFindings(metric, field) ==
    {i \in 1..Len(ret.value) :
        ret.value[i].metric_name = metric /\ ret.value[i].field_name = field}

\* C24: a field of both schema profiles whose dominant types differ gets
\* exactly one type_change finding, CRITICAL with drift_score 1.0; a common
\* field whose dominant types are equal gets none.
C24_TypeChangeOneCritical ==
    SchemaReturned =>
        \A f \in CommonFields :
            IF call.baseline_profile.fields[f].type # call.current_profile.fields[f].type
            THEN /\ Cardinality(SchemaFindings("type_change", f)) = 1
                 /\ \A i \in SchemaFindings("type_change", f) :
                       /\ ret.value[i].severity = "CRITICAL"
                       /\ REq(ret.value[i].drift_score, One)
            ELSE SchemaFindings("type_change", f) = {}

\* "x" held strings in the baseline and no value at all in the current
\* batch, "id" kept its type: one type_change, about "x"
C24_Witness ==
    /\ SchemaReturned
    /\ CommonFields = {"x", "id"}
    /\ call.baseline_profile.fields["x"].type = "str"
    /\ call.current_profile.fields["x"].type = "null"
    /\ call.baseline_profile.fields["id"].type = call.current_profile.fields["id"].type
    /\ Cardinality(SchemaFindings("type_change", "x")) = 1
    /\ SchemaFindings("type_change", "id") = {}

\* C25: a field of the current schema profile that the baseline lacks gets
\* exactly one field_added finding: INFO with score 0.5 if the field is
\* nullable in the current profile, otherwise WARNING with score 0.8.
C25_FieldAddedByNullability ==
    SchemaReturned =>
        \A f \in (DOMAIN call.current_profile.fields)
                 \ (DOMAIN call.baseline_profile.fields) :
            /\ Cardinality(SchemaFindings("field_added", f)) = 1
            /\ \A i \in SchemaFindings("field_added", f) :
                  IF call.current_profile.fields[f].nullable
                  THEN /\ ret.value[i].severity = "INFO"
                       /\ REq(ret.value[i].drift_score, Rat(1, 2))
                  ELSE /\ ret.value[i].severity = "WARNING"
                       /\ REq(ret.value[i].drift_score, Rat(4, 5))

\* two new fields in one call, a nullable one and one that is never null
C25_Witness ==
    /\ SchemaReturned
    /\ DOMAIN call.baseline_profile.fields = {}
    /\ DOMAIN call.current_profile.fields = {"x", "id"}
    /\ call.current_profile.fields["x"].nullable
    /\ \E i \in SchemaFindings("field_added", "x") : ret.value[i].severity = "INFO"
    /\ \E i \in SchemaFindings("field_added", "id") : ret.value[i].severity = "WARNING"

-----------------------------------------------------------------------------
(* Properties of DriftRunner: the enable flags *)

\* a run that went through detection has returned
DetectionReturned == pc = "done" /\ "build_profiles" \in Performed

\* the findings of one drift type in the returned summary
ReturnedOfType(drift_type) ==
    {i \in 1..Len(returned.value.results) :
        returned.value.results[i].drift_type = drift_type}

\* what each category adds to total_checks when it is enabled
ChecksOf(target) ==
    IF ~the_enabled(target) THEN 0
    ELSE IF target = "schema_drift"
    THEN Cardinality(DOMAIN profiles.baseline_schema.fields)
         + Cardinality(DOMAIN profiles.current_schema.fields)
    ELSE IF target = "distribution_drift"
    THEN Cardinality(DOMAIN profiles.baseline_stat.categorical)
         + Cardinality(DOMAIN profiles.baseline_stat.numerical)
    ELSE 1 + Cardinality(DOMAIN profiles.baseline_volume.per_entity)

\* C26: in a run a detector runs exactly when its flag is true; a disabled
\* category adds no finding and no checks, and an enabled one adds to
\* total_checks: schema, the baseline fields plus the current fields;
\* distribution, the baseline categorical plus numerical tracked fields;
\* volume, 1 plus the baseline entity dimensions.
C26_FlagsGateDetectors ==
    DetectionReturned =>
        /\ \A target \in {"schema_drift", "distribution_drift", "volume_drift"} :
              LET drift_type == CHOOSE t \in DriftType : target = t \o "_drift"
                  step == drift_type \o "_detector"
              IN  /\ the_enabled(target) <=> step \in Performed
                  /\ ~the_enabled(target) => ReturnedOfType(drift_type) = {}
        /\ returned.value.total_checks
              = ChecksOf("schema_drift") + ChecksOf("distribution_drift")
                + ChecksOf("volume_drift")

\* distribution is switched off on data where it would have found drift;
\* schema and volume ran, counted their checks and reported findings
C26_Witness ==
    /\ DetectionReturned
    /\ the_enabled("schema_drift")
    /\ ~the_enabled("distribution_drift")
    /\ the_enabled("volume_drift")
    /\ distribution_drifts # <<>>
    /\ ReturnedOfType("schema") # {}
    /\ ReturnedOfType("volume") # {}
    /\ returned.value.total_checks > 0

-----------------------------------------------------------------------------
(* Calls of the profile builders on enumerated batches *)

\* the longest batch profiled
MaxProfileRecords == 3

\* the largest max_cardinality_track tried
MaxTrack == 3

\* the largest top_n tried
MaxTopN == 2

\* records with one field "x": JSON numbers and strings (the number 1 and
\* the string "1" among them), null, or no such field
ProfileRecords ==
    {JDict([x |-> v]) : v \in {IntLeaf("1", 1), StrLeaf("1"), StrLeaf("a"), JNull}}
    \cup {JDict(<<>>)}

ProfileBatches == UNION {[1..n -> ProfileRecords] : n \in 0..MaxProfileRecords}

InitSchemaFromRecords ==
    \E records \in ProfileBatches, max_cardinality_track \in 1..MaxTrack :
        call = [fn |-> "schema_from_records", records |-> records,
                max_cardinality_track |-> max_cardinality_track]

InitVolumeFromRecords ==
    \E records \in ProfileBatches, top_n \in 1..MaxTopN :
        call = [fn |-> "volume_from_records", records |-> records,
                entity_fields |-> << <<"x">> >>, top_n |-> top_n]

InitProfiles ==
    /\ RunnerIdle
    /\ summary = NoSummary
    /\ ret = NoRet
    /\ \/ InitSchemaFromRecords
       \/ InitVolumeFromRecords

ApplySchemaFromRecords ==
    /\ call.fn = "schema_from_records"
    /\ ~ret.done
    /\ ret' = [done |-> TRUE,
               value |-> SchemaFromRecords(call.records, call.max_cardinality_track)]
    /\ UNCHANGED <<runner_vars, summary, call>>

ApplyVolumeFromRecords ==
    /\ call.fn = "volume_from_records"
    /\ ~ret.done
    /\ ret' = [done |-> TRUE,
               value |-> VolumeFromRecords(call.records, call.entity_fields, call.top_n)]
    /\ UNCHANGED <<runner_vars, summary, call>>

NextProfiles ==
    \/ ApplySchemaFromRecords
    \/ ApplyVolumeFromRecords

SpecProfiles == InitProfiles /\ [][NextProfiles]_vars

\* the distinct non-null values the records of the call hold at "x"
TrueValues ==
    {call.records[i].items["x"] :
        i \in {j \in 1..Len(call.records) :
                  /\ "x" \in DOMAIN call.records[j].items
                  /\ call.records[j].items["x"].kind # "null"}}

\* the number of records of the call whose "x" is this value
TrueCount(value) ==
    Cardinality({i \in 1..Len(call.records) :
                    /\ "x" \in DOMAIN call.records[i].items
                    /\ call.records[i].items["x"] = value})

SchemaProfileReturned == call.fn = "schema_from_records" /\ ret.done

\* C27 as stated: every field of a profile built by from_records has
\* cardinality <= max_cardinality_track; when cardinality_exact is true the
\* cardinality is the true number of distinct non-null values; when that
\* number exceeds the cap, cardinality_exact is false.
C27_CardinalityCappedAndExact ==
    (SchemaProfileReturned /\ "x" \in DOMAIN ret.value.fields) =>
        LET info == ret.value.fields["x"]
        IN  /\ info.cardinality <= call.max_cardinality_track
            /\ info.cardinality_exact => info.cardinality = Cardinality(TrueValues)
            /\ Cardinality(TrueValues) > call.max_cardinality_track
                  => ~info.cardinality_exact

VolumeProfileReturned == call.fn = "volume_from_records" /\ ret.done

\* C28 as stated: from_records sets total_count to the batch size and, for
\* an entity field with a non-null value, keeps at most top_n entity values,
\* each with its true frequency in the batch, no dropped value having a
\* higher count than a kept one; an empty batch gives total_count 0 and no
\* entity dimension.
C28_TopEntitiesWithTrueCounts ==
    VolumeProfileReturned =>
        /\ ret.value.total_count = Len(call.records)
        /\ call.records = <<>> => DOMAIN ret.value.per_entity = {}
        /\ TrueValues # {} =>
              /\ "x" \in DOMAIN ret.value.per_entity
              /\ LET kept == ret.value.per_entity["x"]
                 IN  /\ Cardinality(DOMAIN kept) <= call.top_n
                     /\ \A k \in DOMAIN kept :
                           \E v \in TrueValues : v.repr = k /\ kept[k] = TrueCount(v)
                     /\ \A v \in TrueValues :
                           v.repr \notin DOMAIN kept
                              => \A k \in DOMAIN kept : TrueCount(v) <= kept[k]

-----------------------------------------------------------------------------
(* data_validation/engine/validator.py *)

\* an engine is followed for MaxEvents calls of validate_event
MaxEvents == 3

\* checks/schema.py get_nested_value: follow the keys of a dotted path
\* (given here already split); None when a step meets a non-dict, a missing
\* key or a null
RECURSIVE get_nested_value(_, _)
get_nested_value(data, keys) ==
    IF keys = <<>> THEN data
    ELSE IF data.kind # "dict" THEN JNull
    ELSE IF Head(keys) \notin DOMAIN data.items THEN JNull
    ELSE IF data.items[Head(keys)].kind = "null" THEN JNull
    ELSE get_nested_value(data.items[Head(keys)], Tail(keys))

\* Python can hash a str or an int; hashing a list or a dict raises TypeError
Hashable(value) == value.kind = "leaf"

\* the rules the engine is built from: only duplicate_check, switched on or
\* off, with the default key_field and severity; the six checkers before it
\* have no rule and report nothing
EngineRules == {[duplicate_check |-> [enabled |-> enabled]] : enabled \in BOOLEAN}

\* the events handed to validate_event: the key field "id" holds a string,
\* an int, a list, null, or is missing
EngineEvents ==
    {JDict([id |-> v]) :
        v \in {StrLeaf("a"), StrLeaf("1"), IntLeaf("1", 1), JList(1), JNull}}
    \cup {JDict(<<>>)}

\* _check_duplicate: [raised, failure, duplicate_cache] for one event; the
\* membership test hashes the key, so an unhashable key raises before the
\* cache is touched
check_duplicate(duplicate_cache, event) ==
    LET key_field == "id"
        event_key == get_nested_value(event, <<key_field>>)
        nothing == [raised |-> FALSE, failure |-> <<>>,
                    duplicate_cache |-> duplicate_cache]
    IN  IF event_key.kind = "null" THEN nothing
        ELSE IF ~Hashable(event_key)
            THEN [nothing EXCEPT !.raised = TRUE]
        ELSE IF event_key \in duplicate_cache
            THEN [nothing EXCEPT !.failure =
                    << [check_name |-> "duplicate." \o key_field,
                        field_path |-> key_field,
                        check_type |-> "duplicate",
                        severity |-> "CRITICAL"] >>]
        ELSE [nothing EXCEPT !.duplicate_cache = duplicate_cache \cup {event_key}]

\* ValidationResult._update_status
StatusOf(failures) ==
    IF \E i \in 1..Len(failures) : failures[i].severity = "CRITICAL" THEN "FAIL"
    ELSE IF \E i \in 1..Len(failures) : failures[i].severity = "WARNING" THEN "WARN"
    ELSE "PASS"

\* the variables the validation engine leaves alone
validator_rest == <<pc, config, reference_time, baseline_window, current_window,
                    baseline_data, current_data, profiles, summary, returned,
                    raised, steps, fetch_attempts, store, persist_calls,
                    writer, runs, service, call, ret>>

\* ValidationEngine(rules_dict=rules): a fresh, empty cache
InitValidator ==
    /\ RunnerAtRest
    /\ service = NoService
    /\ summary = NoSummary
    /\ PureIdle
    /\ \E rules \in EngineRules :
          validation_engine =
              [made |-> TRUE, rules |-> rules, duplicate_cache |-> {},
               total_validated |-> 0, validated |-> <<>>,
               result |-> [status |-> "none", failures |-> <<>>]]

\* validate_event(event): the checkers, then the duplicate check when it is
\* enabled, then the statistics; an exception on the way becomes one
\* validation_engine.error failure and skips what follows it.
\* validated is the list of the events the engine was handed, kept for the
\* properties
ValidateEvent ==
    /\ validation_engine.made
    /\ Len(validation_engine.validated) < MaxEvents
    /\ \E event \in EngineEvents :
          LET enabled == validation_engine.rules.duplicate_check.enabled
              checked == IF enabled
                         THEN check_duplicate(validation_engine.duplicate_cache, event)
                         ELSE [raised |-> FALSE, failure |-> <<>>,
                               duplicate_cache |-> validation_engine.duplicate_cache]
              failures == IF checked.raised
                          THEN << [check_name |-> "validation_engine.error",
                                   field_path |-> "<engine>",
                                   check_type |-> "system",
                                   severity |-> "CRITICAL"] >>
                          ELSE checked.failure
          IN  validation_engine' =
                  [validation_engine EXCEPT
                      !.duplicate_cache = checked.duplicate_cache,
                      !.total_validated = IF checked.raised THEN @ ELSE @ + 1,
                      !.validated = Append(@, event),
                      !.result = [status |-> StatusOf(failures),
                                  failures |-> failures]]
    /\ UNCHANGED validator_rest

NextValidator == ValidateEvent

SpecValidator == InitValidator /\ [][NextValidator]_vars

\* the key of the i-th event the engine was handed
KeyOfEvent(i) == get_nested_value(validation_engine.validated[i], <<"id">>)

\* the last call of validate_event reported a duplicate failure
DuplicateReported ==
    \E i \in 1..Len(validation_engine.result.failures) :
        validation_engine.result.failures[i].check_type = "duplicate"

\* an earlier event handed to the engine had the same non-null key as the last
SeenBefore ==
    LET n == Len(validation_engine.validated)
    IN  /\ n > 0
        /\ KeyOfEvent(n).kind # "null"
        /\ \E i \in 1..(n - 1) : KeyOfEvent(i) = KeyOfEvent(n)

DuplicateChecking ==
    /\ validation_engine.made
    /\ validation_engine.rules.duplicate_check.enabled
    /\ Len(validation_engine.validated) > 0

\* C29 as stated: with duplicate checking enabled, validate_event reports a
\* duplicate failure for an event if and only if an event with the same
\* non-null key was already validated by the same engine, and the cache
\* only grows.
C29_DuplicateIffSeenBefore ==
    /\ [](DuplicateChecking => (DuplicateReported <=> SeenBefore))
    /\ [][validation_engine.duplicate_cache
             \subseteq validation_engine'.duplicate_cache]_vars

====
